---- MODULE Spec2Model ----
(***************************************************************************)
(* Model of the review orchestration engine:                               *)
(*   backend/api/routes/review.py            start_review, _perform_ai_review *)
(*   backend/review_engine/review_workflow.py  the LangGraph workflow       *)
(*   backend/client/*_api_client.py           review_code                   *)
(*   backend/utils/json_parser.py             parse_json_with_fallbacks     *)
(*                                                                         *)
(* Texts (prompts, model responses, documents) are sequences of tokens.    *)
(***************************************************************************)
EXTENDS Integers, Sequences, FiniteSets, TLC

\* ------------------------------------------------------------------ bounds
\* Largest value of StartReviewRequest.max_retries drawn for a request.
MaxCeiling == 3
\* Largest number of findings the static analyzer reports in one run.
MaxFindings == 1

\* ------------------------------------------------------------ null values
None == "None"
NoValue == [t |-> "none", mem |-> {}, n |-> 0]

\* ---------------------------------------------------- utils/json_parser.py
\* Tokens of a model response.  A member token stands for one complete
\* "key": value pair of an object (separators between members are elided);
\* "," is a trailing comma, "w" a word of prose.
Members == {"summary", "issues0", "issues1", "issues2", "purpose"}
Fences == {"FENCE_JSON", "FENCE"}

\* The two trailing-comma substitutions: a comma directly before a closing
\* brace or bracket is dropped.
RECURSIVE fix_json_issues(_)
fix_json_issues(text) ==
    IF text = <<>> THEN <<>>
    ELSE IF Head(text) = "," /\ Len(text) >= 2 /\ text[2] \in {"}", "]"}
         THEN fix_json_issues(Tail(text))
         ELSE <<Head(text)>> \o fix_json_issues(Tail(text))

Depth(text, i) ==
    Cardinality({j \in 1..i : text[j] = "{"}) - Cardinality({j \in 1..i : text[j] = "}"})

\* A well-formed JSON object: braces balanced, closed only by the last token,
\* members (or nested objects as member values) inside.
IsObject(text) ==
    /\ Len(text) >= 2
    /\ text[1] = "{"
    /\ text[Len(text)] = "}"
    /\ \A i \in 1..Len(text) : text[i] \in Members \cup {"{", "}"}
    /\ \A i \in 1..(Len(text) - 1) : Depth(text, i) >= 1
    /\ Depth(text, Len(text)) = 0

\* A well-formed JSON list: empty, or holding one object.
IsList(text) ==
    /\ Len(text) >= 2
    /\ text[1] = "["
    /\ text[Len(text)] = "]"
    /\ \/ Len(text) = 2
       \/ IsObject(SubSeq(text, 2, Len(text) - 1))

\* json.loads: the decoded value (t: its Python type, mem: the keys of an
\* object, n: its length, 0 being falsy), or a JSONDecodeError (ok = FALSE).
json_loads(text) ==
    IF IsObject(text)
    THEN [ok |-> TRUE,
          val |-> [t |-> "dict",
                   mem |-> {text[i] : i \in {j \in 2..(Len(text) - 1) :
                                               Depth(text, j) = 1 /\ text[j] \in Members}},
                   n |-> Cardinality({j \in 2..(Len(text) - 1) :
                                        \/ Depth(text, j) = 1 /\ text[j] \in Members
                                        \/ Depth(text, j) = 2 /\ text[j] = "{"})]]
    ELSE IF IsList(text)
    THEN [ok |-> TRUE, val |-> [t |-> "list", mem |-> {}, n |-> IF Len(text) = 2 THEN 0 ELSE 1]]
    ELSE [ok |-> FALSE, val |-> NoValue]

\* Python truthiness of a decoded value.
Truthy(val) == val.t # "none" /\ val.n > 0

MinOf(S) == CHOOSE x \in S : \A y \in S : x <= y

\* The first code-block pattern (a json-tagged fence, anything, a fence): the
\* text between the first FENCE_JSON and the first fence after it (a json-tagged
\* fence also starts with a plain fence, so either token closes the block).
JsonBlockCloses(text, a) == {b \in (a + 1)..Len(text) : text[b] \in Fences}
JsonBlockOpens(text) ==
    {a \in 1..Len(text) : text[a] = "FENCE_JSON" /\ JsonBlockCloses(text, a) # {}}
JsonBlock(text) ==
    IF JsonBlockOpens(text) = {} THEN [found |-> FALSE, group |-> <<>>]
    ELSE [found |-> TRUE,
          group |-> SubSeq(text, MinOf(JsonBlockOpens(text)) + 1,
                           MinOf(JsonBlockCloses(text, MinOf(JsonBlockOpens(text)))) - 1)]

\* The second code-block pattern (a fence, a brace-delimited text, a fence):
\* the first plain fence directly followed by "{", up to the first "}" that
\* is directly followed by a fence.
BraceBlockCloses(text, a) ==
    {b \in (a + 2)..Len(text) : text[b - 1] = "}" /\ text[b] \in Fences}
BraceBlockOpens(text) ==
    {a \in 1..Len(text) : text[a] = "FENCE" /\ a + 1 <= Len(text)
        /\ text[a + 1] = "{" /\ BraceBlockCloses(text, a) # {}}
BraceBlock(text) ==
    IF BraceBlockOpens(text) = {} THEN [found |-> FALSE, group |-> <<>>]
    ELSE [found |-> TRUE,
          group |-> SubSeq(text, MinOf(BraceBlockOpens(text)) + 1,
                           MinOf(BraceBlockCloses(text, MinOf(BraceBlockOpens(text)))) - 1)]

\* json.loads(fix_json_issues(...)) of a candidate text.
LoadFixed(text) == json_loads(fix_json_issues(text))

\* The balanced-brace scan of extract_json_from_text (brace_count, json_start).
RECURSIVE BraceScan(_, _, _, _)
BraceScan(text, i, brace_count, json_start) ==
    IF i > Len(text) THEN [ok |-> FALSE, val |-> NoValue]
    ELSE IF text[i] = "{"
    THEN BraceScan(text, i + 1, brace_count + 1, IF brace_count = 0 THEN i ELSE json_start)
    ELSE IF text[i] = "}"
    THEN IF brace_count - 1 = 0 /\ json_start # -1
         THEN IF LoadFixed(SubSeq(text, json_start, i)).ok
              THEN LoadFixed(SubSeq(text, json_start, i))
              ELSE BraceScan(text, i + 1, 0, json_start)
         ELSE BraceScan(text, i + 1, brace_count - 1, json_start)
    ELSE BraceScan(text, i + 1, brace_count, json_start)

\* extract_json_from_text after its first fix_json_issues: code blocks first,
\* then the brace scan; the value found, or None (ok = FALSE).
ExtractFromFixed(text) ==
    IF JsonBlock(text).found /\ LoadFixed(JsonBlock(text).group).ok
    THEN LoadFixed(JsonBlock(text).group)
    ELSE IF BraceBlock(text).found /\ LoadFixed(BraceBlock(text).group).ok
    THEN LoadFixed(BraceBlock(text).group)
    ELSE BraceScan(text, 1, 0, -1)

extract_json_from_text(text) == ExtractFromFixed(fix_json_issues(text))

\* parse_json_with_fallbacks: (success, result).
parse_json_with_fallbacks(text) ==
    IF LoadFixed(text).ok THEN [ok |-> TRUE, val |-> LoadFixed(text).val]
    ELSE IF extract_json_from_text(text).ok /\ Truthy(extract_json_from_text(text).val)
    THEN [ok |-> TRUE, val |-> extract_json_from_text(text).val]
    ELSE [ok |-> FALSE, val |-> [t |-> "dict", mem |-> {"error"}, n |-> 1]]

\* Texts a language model may answer with.
TextIssues == <<"{", "summary", "issues2", "}">>
TextClean == <<"{", "summary", "issues0", "}">>
TextProse == <<"w", "w">>
TextFenced == <<"w", "FENCE_JSON", "{", "issues1", ",", "}", "FENCE">>
TextEmbedded == <<"w", "{", "purpose", "}", "w">>
TextEmptyObject == <<"{", "}">>
TextList == <<"[", "{", "summary", "}", "]">>
TextPurpose == <<"{", "purpose", "}">>
\* Answers to the intent prompt and to the review prompt.
IntentTexts == {TextPurpose, TextEmbedded, TextEmptyObject, TextList, TextProse}
ReviewTexts == {TextIssues, TextClean, TextFenced, TextList, TextProse}

\* ------------------------------------------------------------------ state
Nodes == {"fetch_pr_data", "run_sast_analysis", "run_intent_analysis", "combine_results"}
Providers == {"glm", "claude", "other"}
Modes == {"full", "truncated", "summary", "diff_only"}

VARIABLES
    req,        \* the StartReviewRequest and the stored configuration
    phase,      \* position of start_review: "start", "workflow", "loop", "done"
    st,         \* the ReviewState of the workflow (values of the LangGraph channels)
    active,     \* nodes scheduled in the current superstep of the graph
    npc,        \* position of each node: "idle", "ready", "await", "done"
    writes,     \* the update each node returned, applied when the superstep ends
    tasks,      \* run_sast_analysis: outcome of its two gathered sub-tasks, and
                \* whether the symbol extractor was available
    runs,       \* number of times each node was started
    finished,   \* number of times each node returned
    raised,     \* an exception that left workflow.ainvoke
    calls,      \* external calls made: change-set fetch, analyzer, language model;
                \* on_coordinator counts those made on the coordinating task
    attempt,    \* start_review: attempt counter of the retry loop
    broke,      \* start_review: the loop was left by break
    review,     \* start_review: verdict of the last attempt
    all_attempts_results,  \* start_review: issues_count of every recorded attempt
    prompts,    \* the prompt of every review_code call, in order
    last_call,  \* what the last review_code call ended with
    intent_call, \* what the language-model call of run_intent_analysis ended with
    resp,       \* the ReviewResponse returned, once phase = "done"
    pure,       \* the last evaluation of a pure function: operation, argument, result
    cwr         \* call_with_retry: position, counters and result of one call

vars == <<req, phase, st, active, npc, writes, tasks, runs, finished, raised, calls,
          attempt, broke, review, all_attempts_results, prompts, last_call, intent_call, resp,
          pure, cwr>>

NoRetryCall == [pc |-> "idle", max_retries |-> 0, retries |-> 0, last_error |-> <<>>,
                outcomes |-> <<>>, slept |-> <<>>,
                result |-> [success |-> FALSE, text |-> <<>>, attempts |-> 0, error |-> <<>>]]
NoEval == [op |-> "none", arg |-> <<>>, out |-> <<>>]
NoWrites == [k \in {} |-> TRUE]
NoTask == [kind |-> "none", n |-> 0, error |-> None]
NoReview == [null |-> TRUE, summary |-> "", score |-> 0, issues |-> 0, raw_review |-> FALSE]
NoLLMOutcome == [kind |-> "none", text |-> <<>>, error |-> ""]
NoCall == [kind |-> "none", text |-> <<>>, decoded |-> FALSE, error |-> None]
NoResponse == [returned |-> FALSE, success |-> FALSE, review |-> NoReview, error |-> None,
               stages |-> FALSE]

\* Python truthiness of an Optional[str] / of a text.
StrTruthy(s) == s # None /\ s # ""
Min(a, b) == IF a <= b THEN a ELSE b

\* run_review_workflow: initial_state.
InitialState ==
    [workflow_error |-> None,
     fetched |-> FALSE,
     pr_info |-> "{}",
     diff_content |-> "",
     files |-> "[]",
     pr_context |-> "{}",
     extracted_context |-> [present |-> FALSE, diff_only_mode |-> FALSE, changed_files |-> 0,
                           with_content |-> 0, related_files |-> 0],
     context_prompt_section |-> <<>>,
     sast_success |-> FALSE,
     sast_findings |-> 0,
     sast_error |-> None,
     sast_prompt_section |-> <<>>,
     sast_duration_ms |-> "0",
     languages_detected |-> "[]",
     symbol_table_prompt |-> <<>>,
     intent_success |-> FALSE,
     intent_analysis |-> [t |-> "dict", mem |-> {}, n |-> 0],
     intent_error |-> None,
     intent_duration_ms |-> "0",
     combined_prompt |-> <<>>]

\* schemas.py 137-150: StartReviewRequest (with the stored tokens).  A request
\* that disables a stage is taken with a valid configuration and retry off;
\* with retry off, where max_retries is not read, it is 0 or the largest value.
Requests ==
    {r \in [provider : Providers,
            github_token : BOOLEAN,
            api_key : BOOLEAN,
            id_ok : BOOLEAN,
            enable_sast : BOOLEAN,
            enable_intent_analysis : BOOLEAN,
            retry_until_issues_found : BOOLEAN,
            max_retries : 0..MaxCeiling] :
        /\ ~r.retry_until_issues_found => r.max_retries \in {0, MaxCeiling}
        /\ \/ (r.enable_sast /\ r.enable_intent_analysis)
           \/ (r.provider = "glm" /\ r.github_token /\ r.api_key /\ r.id_ok
               /\ ~r.retry_until_issues_found /\ r.max_retries = MaxCeiling)}

Init ==
    /\ req \in Requests
    /\ phase = "start"
    /\ st = InitialState
    /\ active = {}
    /\ npc = [n \in Nodes |-> "idle"]
    /\ writes = [n \in Nodes |-> NoWrites]
    /\ tasks = [semgrep |-> NoTask, symbol |-> NoTask, available |-> FALSE]
    /\ runs = [n \in Nodes |-> 0]
    /\ finished = [n \in Nodes |-> 0]
    /\ raised = FALSE
    /\ calls = [fetch |-> 0, content |-> 0, analyzer |-> 0, symbols |-> 0, intent_llm |-> 0,
                review_llm |-> 0, on_coordinator |-> 0]
    /\ attempt = 0
    /\ broke = FALSE
    /\ review = NoReview
    /\ all_attempts_results = <<>>
    /\ prompts = <<>>
    /\ last_call = NoCall
    /\ intent_call = NoLLMOutcome
    /\ resp = NoResponse
    /\ pure = NoEval
    /\ cwr = NoRetryCall

Respond(success, rev, error, stages) ==
    /\ resp' = [returned |-> TRUE, success |-> success, review |-> rev, error |-> error,
                stages |-> stages]
    /\ phase' = "done"

\* ------------------------------------------- start_review: validation, launch
\* review.py 214-255: missing token, missing key or unknown provider returns an
\* error; otherwise run_review_workflow starts the graph at its entry point.
\* A validation that does not ask for the provider's API key.
ConfigErrorWithoutKeyCheck ==
    IF ~req.github_token THEN "GitHub token not configured"
    ELSE IF req.provider \notin {"glm", "claude"} THEN "Unknown provider"
    ELSE None

ConfigError ==
    IF ~req.github_token THEN "GitHub token not configured"
    ELSE IF req.provider = "glm" /\ ~req.api_key THEN "GLM API key not configured"
    ELSE IF req.provider = "claude" /\ ~req.api_key THEN "Claude API key not configured"
    ELSE IF req.provider \notin {"glm", "claude"} THEN "Unknown provider"
    ELSE None

StartReview ==
    /\ phase = "start"
    /\ IF ConfigError # None
       THEN /\ Respond(FALSE, NoReview, ConfigError, FALSE)
            /\ UNCHANGED <<active, npc>>
       ELSE /\ phase' = "workflow"
            /\ active' = {"fetch_pr_data"}
            /\ npc' = [npc EXCEPT !["fetch_pr_data"] = "ready"]
            /\ UNCHANGED resp
    /\ UNCHANGED <<pure, cwr, req, st, writes, tasks, runs, finished, raised, calls, attempt, broke,
                   review, all_attempts_results, prompts, last_call, intent_call>>

\* ------------------------------------------------------------ fetch_pr_data
\* The update fetch_pr_data returns.  failure: where the node failed
\* ("review_data": get_pr_review_data raised, "extract": extract_context
\* raised, "none"); mode: the processing mode; nfiles, nrelated: changed and
\* related files whose content was fetched; ncontent: the changed files whose
\* content is not empty; ctx: the context section.
FetchUpdate(failure, mode, nfiles, ncontent, nrelated, ctx) ==
    IF ~req.id_ok
    THEN [workflow_error |-> "Missing required PR identification in state"]
    ELSE IF failure = "review_data" \/ (failure = "extract" /\ mode # "diff_only")
    THEN [workflow_error |-> "Failed to fetch PR data"]
    ELSE IF mode = "diff_only"
    THEN [fetched |-> TRUE,
          pr_info |-> "pr", diff_content |-> "diff", files |-> "files",
          pr_context |-> "context",
          extracted_context |-> [present |-> TRUE, diff_only_mode |-> TRUE,
                                 changed_files |-> 0, with_content |-> 0,
                                 related_files |-> 0],
          context_prompt_section |-> <<"## Analysis Mode">>]
    ELSE [fetched |-> TRUE,
          pr_info |-> "pr", diff_content |-> "diff", files |-> "files",
          pr_context |-> "context",
          extracted_context |-> [present |-> TRUE, diff_only_mode |-> FALSE,
                                 changed_files |-> nfiles, with_content |-> ncontent,
                                 related_files |-> nrelated],
          context_prompt_section |-> ctx]

\* A node that fetches file contents in every mode.
FetchesContentAlways(failure, mode) == req.id_ok /\ failure # "review_data"

\* review_workflow.py 144-199: extract_context, which fetches the contents of
\* the files, is called unless the mode is diff_only.
FetchesContent(failure, mode) ==
    req.id_ok /\ failure # "review_data" /\ mode # "diff_only"

FetchPrData ==
    /\ phase = "workflow"
    /\ "fetch_pr_data" \in active
    /\ npc["fetch_pr_data"] = "ready"
    /\ \E failure \in {"none", "review_data", "extract"}, mode \in Modes,
          nfiles \in 0..1, ncontent \in 0..1, nrelated \in 0..1,
          ctx \in {<<>>, <<"## Repository Structure">>} :
          /\ (nfiles > 0) <=> (ctx # <<>>)
          /\ ncontent <= nfiles
          /\ ncontent < nfiles => (mode = "full" /\ nrelated = 0)
          /\ nrelated > 0 => (nfiles > 0 /\ mode = "full")
          /\ writes' = [writes EXCEPT !["fetch_pr_data"] =
                          FetchUpdate(failure, mode, nfiles, ncontent, nrelated, ctx)]
          \* review_workflow.py 127: get_pr_review_data is called in the node
          \* itself; extract_context (198) runs under asyncio.to_thread.
          /\ calls' = [calls EXCEPT !.fetch = IF req.id_ok THEN @ + 1 ELSE @,
                                    !.content = IF FetchesContent(failure, mode)
                                                THEN @ + 1 ELSE @,
                                    !.on_coordinator = IF req.id_ok THEN @ + 1 ELSE @]
    /\ npc' = [npc EXCEPT !["fetch_pr_data"] = "done"]
    /\ runs' = [runs EXCEPT !["fetch_pr_data"] = @ + 1]
    /\ finished' = [finished EXCEPT !["fetch_pr_data"] = @ + 1]
    /\ UNCHANGED <<pure, cwr, req, phase, st, active, tasks, raised, attempt, broke, review,
                   all_attempts_results, prompts, last_call, intent_call, resp>>

\* -------------------------------------------------------- run_sast_analysis
\* semgrep_client.py 507: max_findings of format_findings_for_prompt.
SastPromptMaxFindings == 20

\* format_findings_for_prompt: a header and the top findings.
format_findings_for_prompt(n) ==
    IF n = 0 THEN <<"No SAST issues detected.">>
    ELSE <<"## SAST Analysis Results">> \o [i \in 1..Min(n, SastPromptMaxFindings) |-> "### Issue"]

\* A node that starts the symbol task whether or not the extractor is available.
SymbolTaskStartedUnchecked(s, available) ==
    /\ s.extracted_context.present
    /\ ~s.extracted_context.diff_only_mode
    /\ s.extracted_context.with_content > 0

\* review_workflow.py 270-305: the analyzer task is always started; the symbol
\* task only with full file contents, an available extractor and not diff-only.
SymbolTaskStarted(s, available) ==
    LET ec == s.extracted_context
        diff_only_mode == ec.present /\ ec.diff_only_mode
        full_file_contents == ec.present /\ ~diff_only_mode /\ ec.changed_files > 0
                              /\ ec.with_content > 0
    IN full_file_contents /\ available /\ ~diff_only_mode

SastStart ==
    /\ phase = "workflow"
    /\ "run_sast_analysis" \in active
    /\ npc["run_sast_analysis"] = "ready"
    /\ \E available \in BOOLEAN :
          /\ tasks' = [semgrep |-> [NoTask EXCEPT !.kind = "running"],
                       symbol |-> IF SymbolTaskStarted(st, available)
                                  THEN [NoTask EXCEPT !.kind = "running"] ELSE NoTask,
                       available |-> available]
          \* review_workflow.py 267: get_semgrep_client() constructs the client in
          \* the node itself, and the constructor runs the version check
          \* (semgrep_client.py 87, 93: subprocess.run); the two tasks run
          \* under asyncio.to_thread (292, 302).
          /\ calls' = [calls EXCEPT !.analyzer = @ + 1,
                                    !.symbols = IF SymbolTaskStarted(st, available)
                                                THEN @ + 1 ELSE @,
                                    !.on_coordinator = @ + 1]
    /\ npc' = [npc EXCEPT !["run_sast_analysis"] = "await"]
    /\ runs' = [runs EXCEPT !["run_sast_analysis"] = @ + 1]
    /\ UNCHANGED <<pure, cwr, req, phase, st, active, writes, finished, raised, attempt, broke, review,
                   all_attempts_results, prompts, last_call, intent_call, resp>>

\* What analyze_diff can end with: (True, findings, None), (False, [], error),
\* or an exception raised outside its own try block.
SemgrepOutcomes ==
    {[kind |-> "ok", n |-> k, error |-> None] : k \in 0..MaxFindings}
    \cup {[kind |-> "failed", n |-> 0, error |-> "Semgrep analysis timed out"]}
    \cup {[kind |-> "raised", n |-> 0, error |-> "OSError"]}

\* What extract_from_files can end with: a dict (n files with symbols) or an
\* exception.
SymbolOutcomes ==
    {[kind |-> "ok", n |-> k, error |-> None] : k \in 0..1}
    \cup {[kind |-> "raised", n |-> 0, error |-> "symbol extraction error"]}

SemgrepDone ==
    /\ phase = "workflow"
    /\ npc["run_sast_analysis"] = "await"
    /\ tasks.semgrep.kind = "running"
    /\ \E o \in SemgrepOutcomes : tasks' = [tasks EXCEPT !.semgrep = o]
    /\ UNCHANGED <<pure, cwr, req, phase, st, active, npc, writes, runs, finished, raised, calls, attempt,
                   broke, review, all_attempts_results, prompts, last_call, intent_call, resp>>

SymbolDone ==
    /\ phase = "workflow"
    /\ npc["run_sast_analysis"] = "await"
    /\ tasks.symbol.kind = "running"
    /\ \E o \in SymbolOutcomes : tasks' = [tasks EXCEPT !.symbol = o]
    /\ UNCHANGED <<pure, cwr, req, phase, st, active, npc, writes, runs, finished, raised, calls, attempt,
                   broke, review, all_attempts_results, prompts, last_call, intent_call, resp>>

\* review_workflow.py 318-378: the update run_sast_analysis returns.
SastUpdate(semgrep, symbol) ==
    LET symbol_table_prompt ==
            IF symbol.kind = "ok" /\ symbol.n > 0 THEN <<"## Symbol Table">> ELSE <<>>
    IN IF semgrep.kind = "raised"
       THEN [sast_success |-> FALSE, sast_findings |-> 0, sast_error |-> semgrep.error,
             sast_prompt_section |-> <<>>, sast_duration_ms |-> "ms",
             languages_detected |-> "[]", symbol_table_prompt |-> <<>>]
       ELSE IF semgrep.kind = "ok"
       THEN [sast_success |-> TRUE, sast_findings |-> semgrep.n, sast_error |-> None,
             sast_prompt_section |-> IF semgrep.n > 0
                                     THEN format_findings_for_prompt(semgrep.n) ELSE <<>>,
             sast_duration_ms |-> "ms", languages_detected |-> "languages",
             symbol_table_prompt |-> symbol_table_prompt]
       ELSE [sast_success |-> FALSE, sast_findings |-> 0, sast_error |-> semgrep.error,
             sast_prompt_section |-> <<>>, sast_duration_ms |-> "ms",
             languages_detected |-> "languages", symbol_table_prompt |-> symbol_table_prompt]

\* A node whose analyzer exception leaves it and ends the workflow.
SastFinishPropagating ==
    /\ phase = "workflow"
    /\ npc["run_sast_analysis"] = "await"
    /\ tasks.semgrep.kind \notin {"none", "running"}
    /\ tasks.symbol.kind # "running"
    /\ IF tasks.semgrep.kind = "raised"
       THEN /\ raised' = TRUE
            /\ active' = {}
            /\ npc' = [n \in Nodes |-> "idle"]
            /\ UNCHANGED <<writes, finished>>
       ELSE /\ writes' = [writes EXCEPT !["run_sast_analysis"] =
                            SastUpdate(tasks.semgrep, tasks.symbol)]
            /\ npc' = [npc EXCEPT !["run_sast_analysis"] = "done"]
            /\ finished' = [finished EXCEPT !["run_sast_analysis"] = @ + 1]
            /\ UNCHANGED <<raised, active>>
    /\ tasks' = [semgrep |-> NoTask, symbol |-> NoTask, available |-> FALSE]
    /\ UNCHANGED <<pure, cwr, req, phase, st, runs, calls, attempt, broke, review,
                   all_attempts_results, prompts, last_call, intent_call, resp>>

SastFinish ==
    /\ phase = "workflow"
    /\ npc["run_sast_analysis"] = "await"
    /\ tasks.semgrep.kind \notin {"none", "running"}
    /\ tasks.symbol.kind # "running"
    /\ writes' = [writes EXCEPT !["run_sast_analysis"] = SastUpdate(tasks.semgrep, tasks.symbol)]
    /\ tasks' = [semgrep |-> NoTask, symbol |-> NoTask, available |-> FALSE]
    /\ npc' = [npc EXCEPT !["run_sast_analysis"] = "done"]
    /\ finished' = [finished EXCEPT !["run_sast_analysis"] = @ + 1]
    /\ UNCHANGED <<pure, cwr, req, phase, st, active, runs, raised, calls, attempt, broke, review,
                   all_attempts_results, prompts, last_call, intent_call, resp>>

\* ------------------------------------------------------ run_intent_analysis
EmptyDict == [t |-> "dict", mem |-> {}, n |-> 0]

\* An update that takes an undecodable response for an empty analysis.
IntentUpdateLenient(o) ==
    IF o.kind = "ok"
    THEN [intent_success |-> TRUE,
          intent_analysis |-> IF parse_json_with_fallbacks(o.text).ok
                              THEN parse_json_with_fallbacks(o.text).val ELSE EmptyDict,
          intent_error |-> None, intent_duration_ms |-> "ms"]
    ELSE [intent_success |-> FALSE, intent_analysis |-> EmptyDict, intent_error |-> o.error,
          intent_duration_ms |-> "ms"]

\* An update that reports its error in the slot of the other branch as well.
IntentUpdateSharingError(o) ==
    IF o.kind = "ok" /\ parse_json_with_fallbacks(o.text).ok
    THEN [intent_success |-> TRUE,
          intent_analysis |-> parse_json_with_fallbacks(o.text).val,
          intent_error |-> None, intent_duration_ms |-> "ms"]
    ELSE [intent_success |-> FALSE, intent_analysis |-> EmptyDict,
          intent_error |-> "Intent analysis failed", intent_duration_ms |-> "ms",
          sast_error |-> "Intent analysis failed"]

\* review_workflow.py 412-449: the update run_intent_analysis returns, from
\* the outcome of call_with_retry (kind "ok" with response text, "failed" with
\* its error, or "raised": an exception inside the node).
IntentUpdate(o) ==
    IF o.kind = "ok"
    THEN IF parse_json_with_fallbacks(o.text).ok
         THEN [intent_success |-> TRUE,
               intent_analysis |-> parse_json_with_fallbacks(o.text).val,
               intent_error |-> None, intent_duration_ms |-> "ms"]
         ELSE [intent_success |-> FALSE, intent_analysis |-> EmptyDict,
               intent_error |-> "Failed to parse intent analysis response",
               intent_duration_ms |-> "ms"]
    ELSE [intent_success |-> FALSE, intent_analysis |-> EmptyDict, intent_error |-> o.error,
          intent_duration_ms |-> "ms"]

\* What a language-model call made by a node or by review_code can end with:
\* a response text, the failure of call_with_retry, or an exception around it.
LLMOutcomes(texts) ==
    {[kind |-> "ok", text |-> t, error |-> ""] : t \in texts}
    \cup {[kind |-> "failed", text |-> <<>>, error |-> "API call failed after 4 attempts"]}
    \cup {[kind |-> "raised", text |-> <<>>, error |-> ""]}

IntentStart ==
    /\ phase = "workflow"
    /\ "run_intent_analysis" \in active
    /\ npc["run_intent_analysis"] = "ready"
    /\ runs' = [runs EXCEPT !["run_intent_analysis"] = @ + 1]
    /\ IF req.provider \in {"glm", "claude"}
       THEN /\ npc' = [npc EXCEPT !["run_intent_analysis"] = "await"]
            /\ calls' = [calls EXCEPT !.intent_llm = @ + 1]
            /\ UNCHANGED <<writes, finished>>
       ELSE /\ npc' = [npc EXCEPT !["run_intent_analysis"] = "done"]
            /\ writes' = [writes EXCEPT !["run_intent_analysis"] =
                            IntentUpdate([kind |-> "raised", text |-> <<>>,
                                          error |-> "Unknown provider"])]
            /\ finished' = [finished EXCEPT !["run_intent_analysis"] = @ + 1]
            /\ UNCHANGED calls
    /\ UNCHANGED <<pure, cwr, req, phase, st, active, tasks, raised, attempt, broke, review,
                   all_attempts_results, prompts, last_call, intent_call, resp>>

IntentReturn ==
    /\ phase = "workflow"
    /\ npc["run_intent_analysis"] = "await"
    /\ \E o \in LLMOutcomes(IntentTexts) :
          /\ writes' = [writes EXCEPT !["run_intent_analysis"] = IntentUpdate(o)]
          /\ intent_call' = o
    /\ npc' = [npc EXCEPT !["run_intent_analysis"] = "done"]
    /\ finished' = [finished EXCEPT !["run_intent_analysis"] = @ + 1]
    /\ UNCHANGED <<pure, cwr, req, phase, st, active, tasks, runs, raised, calls, attempt, broke, review,
                   all_attempts_results, prompts, last_call, resp>>

\* -------------------------------------------------- combine_analysis_results
SastHeader == "## Static Analysis (SAST) Findings"
SastWarning == "## SAST Analysis: SAST analysis failed"
IntentHeader == "## Intent Analysis"
IntentWarning == "## Intent Analysis: Intent analysis failed"

\* intent.get(...) on a decoded value that is not a dict raises AttributeError.
CombineRaises(s) ==
    s.intent_success /\ Truthy(s.intent_analysis) /\ s.intent_analysis.t # "dict"

\* The same sections with the intent section placed before the others.
combine_intent_first(s) ==
    (IF s.intent_success /\ Truthy(s.intent_analysis)
     THEN <<IntentHeader, "Not determined", "*Intent Analysis Confidence*">>
     ELSE IF StrTruthy(s.intent_error) THEN <<IntentWarning>> ELSE <<>>)
    \o (IF s.context_prompt_section # <<>> THEN s.context_prompt_section ELSE <<>>)
    \o (IF s.sast_success /\ s.sast_prompt_section # <<>>
        THEN <<SastHeader>> \o s.sast_prompt_section \o <<"*SAST completed*">>
        ELSE IF StrTruthy(s.sast_error) THEN <<SastWarning>> ELSE <<>>)
    \o (IF s.symbol_table_prompt # <<>> THEN <<"---">> \o s.symbol_table_prompt ELSE <<>>)

\* review_workflow.py 597-648: the sections, in the order they are appended.
combine_analysis_results(s) ==
    (IF s.context_prompt_section # <<>> THEN s.context_prompt_section ELSE <<>>)
    \o (IF s.sast_success /\ s.sast_prompt_section # <<>>
        THEN <<SastHeader>> \o s.sast_prompt_section \o <<"*SAST completed*">>
        ELSE IF StrTruthy(s.sast_error) THEN <<SastWarning>> ELSE <<>>)
    \o (IF s.symbol_table_prompt # <<>> THEN <<"---">> \o s.symbol_table_prompt ELSE <<>>)
    \o (IF s.intent_success /\ Truthy(s.intent_analysis)
        THEN <<IntentHeader,
               IF "purpose" \in s.intent_analysis.mem THEN "### Purpose" ELSE "Not determined",
               "*Intent Analysis Confidence*">>
        ELSE IF StrTruthy(s.intent_error) THEN <<IntentWarning>> ELSE <<>>)

\* A combine step that also empties the context section it has used.
CombineUpdateConsumingContext(s) ==
    [combined_prompt |-> combine_analysis_results(s), context_prompt_section |-> <<>>]

\* review_workflow.py 648-651: the update combine_analysis_results returns.
CombineUpdate(s) == [combined_prompt |-> combine_analysis_results(s)]

CombineResults ==
    /\ phase = "workflow"
    /\ "combine_results" \in active
    /\ npc["combine_results"] = "ready"
    /\ runs' = [runs EXCEPT !["combine_results"] = @ + 1]
    /\ IF CombineRaises(st)
       THEN /\ raised' = TRUE
            /\ active' = {}
            /\ npc' = [n \in Nodes |-> "idle"]
            /\ UNCHANGED <<writes, finished>>
       ELSE /\ writes' = [writes EXCEPT !["combine_results"] = CombineUpdate(st)]
            /\ npc' = [npc EXCEPT !["combine_results"] = "done"]
            /\ finished' = [finished EXCEPT !["combine_results"] = @ + 1]
            /\ UNCHANGED <<raised, active>>
    /\ UNCHANGED <<pure, cwr, req, phase, st, tasks, calls, attempt, broke, review,
                   all_attempts_results, prompts, last_call, intent_call, resp>>

\* ------------------------------------------- create_review_workflow: the graph
\* should_continue_after_fetch and the conditional edges of fetch_pr_data.
should_continue_after_fetch(s) ==
    IF StrTruthy(s.workflow_error) THEN "error" ELSE "continue"

\* The edges leaving a node once it has returned: the conditional edges of
\* fetch_pr_data (continue -> run_sast_analysis, error -> END) and, besides
\* them, every edge added with add_edge.
Edges(n, s) ==
    CASE n = "fetch_pr_data" ->
            (IF should_continue_after_fetch(s) = "continue"
             THEN {"run_sast_analysis"} ELSE {})
            \cup {"run_intent_analysis"}
      [] n = "run_sast_analysis" -> {"combine_results"}
      [] n = "run_intent_analysis" -> {"combine_results"}
      [] n = "combine_results" -> {}

\* A superstep that ends as soon as one scheduled node has returned.
SuperstepAnyDone(scheduled, pcs) == \E n \in scheduled : pcs[n] = "done"

\* A superstep of the graph ends when every node scheduled in it has returned.
SuperstepComplete(scheduled, pcs) == \A n \in scheduled : pcs[n] = "done"

\* End of a superstep: the returned updates are merged into the state and the
\* nodes reached by the edges of the returned nodes form the next superstep.
Superstep ==
    /\ phase = "workflow"
    /\ active # {}
    /\ \E n \in active : npc[n] = "done"
    /\ SuperstepComplete(active, npc)
    /\ LET done == {n \in active : npc[n] = "done"}
           merged == [k \in DOMAIN st |->
                        IF \E n \in done : k \in DOMAIN writes[n]
                        THEN writes[CHOOSE n \in done : k \in DOMAIN writes[n]][k]
                        ELSE st[k]]
           next == UNION {Edges(n, merged) : n \in done}
       IN /\ st' = merged
          /\ active' = (active \ done) \cup next
          /\ npc' = [n \in Nodes |-> IF n \in next THEN "ready"
                                     ELSE IF n \in done THEN "idle" ELSE npc[n]]
          /\ writes' = [n \in Nodes |-> IF n \in done THEN NoWrites ELSE writes[n]]
    /\ UNCHANGED <<pure, cwr, req, phase, tasks, runs, finished, raised, calls, attempt, broke, review,
                   all_attempts_results, prompts, last_call, intent_call, resp>>

\* ------------------------------------------------------- _perform_ai_review
\* schemas.py 130: score: int = Field(default=5, ge=1, le=10).
ScoreMin == 1
ScoreMax == 10
\* review.py 153: the score given to the "Review failed" CodeReviewResult.
FailedReviewScore == 0
\* review.py 161: result.get('score', 5).
DefaultScore == 5

\* Pydantic validation of CodeReviewResult: the record, or a ValidationError.
CodeReviewResult(summary, score, issues, raw_review) ==
    [valid |-> score >= ScoreMin /\ score <= ScoreMax,
     review |-> [null |-> FALSE, summary |-> summary, score |-> score, issues |-> issues,
                 raw_review |-> raw_review]]

\* A hint that starts one attempt late.
NeedsRetryHintLate(n) == n > 2

\* review.py 122: the retry hint is added on a retry attempt.
NeedsRetryHint(n) == n > 1

\* review.py 124-133: the checklist of the retry hint.
Checklist ==
    <<"- Subtle bugs or logic errors", "- Missing error handling",
      "- Security vulnerabilities", "- Performance issues",
      "- Code style/best practice violations", "- Missing edge case handling",
      "- Incorrect API usage", "- Type mismatches or missing type checks",
      "- Resource leaks or cleanup issues", "- Concurrency/race condition issues">>

HintHeader == "**IMPORTANT (Attempt"
HintFooter == "You MUST find at least one issue."

retry_hint(n) == <<HintHeader, ToString(n)>> \o Checklist \o <<HintFooter>>

\* review.py 119-139: the text passed to review_code as sast_findings.
CombinedPromptFor(s, n) ==
    IF NeedsRetryHint(n) THEN retry_hint(n) \o s.combined_prompt ELSE s.combined_prompt

\* _generate_review_prompt of both clients: the prompt sent to the model.
generate_review_prompt(sast_findings) ==
    <<"Please review the following code changes", "Pull Request Information">>
    \o (IF sast_findings # <<>>
        THEN <<"## Static Analysis (SAST) Findings (validate)">> \o sast_findings
        ELSE <<>>)
    \o <<"## Review Guidelines", "Code Changes (Git Diff)", "JSON format">>

RawReview == [t |-> "dict", mem |-> {"raw_review"}, n |-> 1]

\* A review_code that reports an undecodable response as a failure.
review_code_strict(o) ==
    IF o.kind = "failed" THEN [success |-> FALSE, result |-> EmptyDict, error |-> o.error]
    ELSE IF o.kind = "raised"
    THEN [success |-> FALSE, result |-> EmptyDict, error |-> "Code review failed"]
    ELSE IF parse_json_with_fallbacks(o.text).ok
    THEN [success |-> TRUE, result |-> parse_json_with_fallbacks(o.text).val, error |-> ""]
    ELSE [success |-> FALSE, result |-> EmptyDict, error |-> "Failed to parse review"]

\* review_code of both clients: (success, review_result, error_message).
review_code(o) ==
    IF o.kind = "failed" THEN [success |-> FALSE, result |-> EmptyDict, error |-> o.error]
    ELSE IF o.kind = "raised"
    THEN [success |-> FALSE, result |-> EmptyDict, error |-> "Code review failed"]
    ELSE IF parse_json_with_fallbacks(o.text).ok
    THEN [success |-> TRUE, result |-> parse_json_with_fallbacks(o.text).val, error |-> ""]
    ELSE [success |-> TRUE, result |-> RawReview, error |-> ""]

IssuesOf(result) ==
    IF "issues2" \in result.mem THEN 2 ELSE IF "issues1" \in result.mem THEN 1 ELSE 0

\* review.py 150-154: the CodeReviewResult built when review_code failed.
FailedReview == CodeReviewResult("Review failed", FailedReviewScore, 0, FALSE)

\* review.py 187-192: the CodeReviewResult built when parsing the result raised.
FallbackReview ==
    CodeReviewResult("Review completed with parsing issues", DefaultScore, 0, TRUE)

\* review.py 158-181: the CodeReviewResult built from a decoded dict.
BuiltReview(result) ==
    CodeReviewResult(IF "summary" \in result.mem THEN "summary" ELSE "Review completed",
                     DefaultScore, IssuesOf(result), "raw_review" \in result.mem)

\* review.py 142-192: what _perform_ai_review returns for the result rc of
\* review_code; raised = TRUE when an exception leaves the function.
PerformWith(rc) ==
    IF ~rc.success
    THEN IF FailedReview.valid
         THEN [raised |-> FALSE, success |-> FALSE, error |-> rc.error,
               review |-> FailedReview.review]
         ELSE [raised |-> TRUE, success |-> FALSE, error |-> "ValidationError",
               review |-> NoReview]
    ELSE IF rc.result.t # "dict" \/ ~BuiltReview(rc.result).valid
    THEN [raised |-> FALSE, success |-> TRUE, error |-> None, review |-> FallbackReview.review]
    ELSE [raised |-> FALSE, success |-> TRUE, error |-> None,
          review |-> BuiltReview(rc.result).review]

perform_ai_review(o) == PerformWith(review_code(o))

\* ------------------------------------------- start_review: after the workflow
\* review.py 257-330: a workflow error (or an exception of the workflow) is
\* returned; otherwise the retry loop starts.
WorkflowReturn ==
    /\ phase = "workflow"
    /\ active = {}
    /\ IF raised
       THEN Respond(FALSE, NoReview, "Review failed: exception", FALSE)
       ELSE IF StrTruthy(st.workflow_error)
       THEN Respond(FALSE, NoReview, st.workflow_error, FALSE)
       ELSE /\ phase' = "loop"
            /\ UNCHANGED resp
    /\ UNCHANGED <<pure, cwr, req, st, active, npc, writes, tasks, runs, finished, raised, calls, attempt,
                   broke, review, all_attempts_results, prompts, last_call, intent_call>>

\* review.py 326.
max_attempts == IF req.retry_until_issues_found THEN req.max_retries ELSE 1

\* A loop that gives up one attempt before the ceiling.
LoopContinuesOneShort == attempt + 1 < max_attempts /\ ~broke

\* The loop condition without the break on issues found.
LoopContinuesIgnoringBreak == attempt < max_attempts

\* review.py 332: while attempt < max_attempts (left by break on issues found).
LoopContinues == attempt < max_attempts /\ ~broke

\* What the log records of a model call.
OutcomeTag(o) ==
    [kind |-> o.kind,
     text |-> o.text,
     decoded |-> o.kind = "ok" /\ parse_json_with_fallbacks(o.text).ok,
     error |-> review_code(o).error]

\* A loop that keeps the verdict of its first attempt.
KeptReviewFirst(previous, new) == IF previous.null THEN new ELSE previous

\* review.py 336-338: the result of the attempt is assigned to review, which
\* held the verdict of the previous attempt.
KeptReview(previous, new) == new

\* review.py 332-368: one iteration of the retry loop.
SynthAttempt ==
    /\ phase = "loop"
    /\ LoopContinues
    /\ attempt' = attempt + 1
    /\ calls' = [calls EXCEPT !.review_llm = @ + 1]
    /\ prompts' = Append(prompts, generate_review_prompt(CombinedPromptFor(st, attempt + 1)))
    /\ \E o \in LLMOutcomes(ReviewTexts) :
          LET r == perform_ai_review(o)
          IN /\ last_call' = OutcomeTag(o)
             /\ IF r.raised
                THEN /\ Respond(FALSE, NoReview, "Review failed: ValidationError", FALSE)
                     /\ UNCHANGED <<review, all_attempts_results, broke>>
                ELSE IF ~r.success
                THEN /\ Respond(FALSE, NoReview, r.error, TRUE)
                     /\ UNCHANGED <<review, all_attempts_results, broke>>
                ELSE /\ review' = KeptReview(review, r.review)
                     /\ all_attempts_results' =
                            Append(all_attempts_results, KeptReview(review, r.review).issues)
                     /\ broke' = (KeptReview(review, r.review).issues > 0)
                     /\ UNCHANGED <<phase, resp>>
    /\ UNCHANGED <<pure, cwr, req, st, active, npc, writes, tasks, runs, finished, raised, intent_call>>

\* review.py 370-400: the loop is over; the review is returned.
ReturnReview ==
    /\ phase = "loop"
    /\ ~LoopContinues
    /\ Respond(TRUE, review, None, TRUE)
    /\ UNCHANGED <<pure, cwr, req, st, active, npc, writes, tasks, runs, finished, raised, calls, attempt,
                   broke, review, all_attempts_results, prompts, last_call, intent_call>>

\* ------------------------------------------------------------ specification
Next ==
    \/ StartReview
    \/ FetchPrData
    \/ SastStart
    \/ SemgrepDone
    \/ SymbolDone
    \/ SastFinish
    \/ IntentStart
    \/ IntentReturn
    \/ CombineResults
    \/ Superstep
    \/ WorkflowReturn
    \/ SynthAttempt
    \/ ReturnReview

Spec == Init /\ [][Next]_vars

\* ------------------------------------------------------------ pure functions
\* The variables of start_review and of the workflow; the evaluation of a pure
\* function leaves them alone.
wvars == <<req, phase, st, active, npc, writes, tasks, runs, finished, raised, calls,
           attempt, broke, review, all_attempts_results, prompts, last_call, intent_call, resp>>

\* pr_size_limits.py 15-28: the fields of DEFAULT_LIMITS that decide the mode.
max_files_for_full_analysis == 150
max_files_for_file_content == 200
max_files_absolute == 250
max_diff_size == 50000
max_lines_changed == 2000

\* pr_size_limits.py 60-85: the properties of PRSizeMetrics.
is_large(m) ==
    \/ m.file_count > max_files_for_full_analysis
    \/ m.total_changes > max_lines_changed
    \/ m.diff_size_chars > max_diff_size

is_very_large(m) ==
    \/ m.file_count > max_files_absolute
    \/ m.total_changes > max_lines_changed * 2
    \/ m.diff_size_chars > max_diff_size * 2

needs_diff_only_mode(m) == m.file_count > max_files_for_file_content

\* The mode chosen by the size tests before the file-count test of diff-only.
get_recommended_mode_size_first(m) ==
    IF is_very_large(m) THEN "summary"
    ELSE IF needs_diff_only_mode(m) THEN "diff_only"
    ELSE IF is_large(m) THEN "truncated"
    ELSE "full"

\* pr_size_limits.py 87-103.
get_recommended_mode(m) ==
    IF needs_diff_only_mode(m) THEN "diff_only"
    ELSE IF is_very_large(m) THEN "summary"
    ELSE IF is_large(m) THEN "truncated"
    ELSE "full"

\* Metrics on both sides of every threshold.
FileCounts == {5, 150, 151, 200, 201, 250, 251, 260}
ChangeCounts == {40, 2000, 2001, 4000, 4001}
DiffSizes == {2000, 50000, 50001, 100000, 100001}
MetricsInputs ==
    [file_count : FileCounts, total_changes : ChangeCounts, diff_size_chars : DiffSizes]

EvalRecommendedMode ==
    /\ pure = NoEval
    /\ \E m \in MetricsInputs :
          pure' = [op |-> "get_recommended_mode", arg |-> m, out |-> get_recommended_mode(m)]
    /\ UNCHANGED <<wvars, cwr>>

\* Texts are modelled by their lengths.  A file is its path, its language tag
\* and its content; a context is the length of the repository tree string (0:
\* no repo_structure) and its three lists of files.
Max(a, b) == IF a >= b THEN a ELSE b

\* int((max_total_size - current_size) * share), share given in percent.
Budget(max_total_size, current_size, percent) ==
    ((max_total_size - current_size) * percent) \div 100

\* context_extractor.py 89-94: the structure section.
StructSectionLen(ctx) == IF ctx.tree = 0 THEN 0 ELSE 45 + Min(ctx.tree, 2000) + 6

\* context_extractor.py 117, 148, 172: "### path / fence language / content / fence".
FileSectionLen(f, limit) == f.path + f.lang + Min(f.content, limit) + 14

\* context_extractor.py 122-123: the first file, cut to 3000 characters.
TruncatedSectionLen(f) == f.path + f.lang + Min(f.content, 3000) + 30

\* context_extractor.py 112-131: the loop over the changed files.
RECURSIVE ChangedLoop(_, _, _, _, _, _)
ChangedLoop(files, i, max_files, file_limit, threshold, acc) ==
    IF i > max_files THEN acc
    ELSE IF acc.current_size + FileSectionLen(files[i], file_limit) > threshold
    THEN IF acc.files_included = 0
         THEN [acc EXCEPT !.files_included = 1, !.part = @ + TruncatedSectionLen(files[i])]
         ELSE acc
    ELSE ChangedLoop(files, i + 1, max_files, file_limit, threshold,
                     [current_size |-> acc.current_size + FileSectionLen(files[i], file_limit),
                      files_included |-> acc.files_included + 1,
                      part |-> acc.part + FileSectionLen(files[i], file_limit)])

\* context_extractor.py 133-134: the line counting the files left out.
MoreFilesLine(files, acc) ==
    IF acc.files_included < Len(files) THEN [acc EXCEPT !.part = @ + 32] ELSE acc

\* context_extractor.py 96-134: the changed-files part; cur is current_size
\* after the structure section.
ChangedPart(files, max_total_size, cur) ==
    IF files = <<>> THEN [current_size |-> cur, files_included |-> 0, part |-> 0]
    ELSE MoreFilesLine(files,
            ChangedLoop(files, 1, Min(Len(files), 10),
                        Min(Budget(max_total_size, cur, 60) \div Max(Min(Len(files), 10), 1),
                            10000),
                        max_total_size - Budget(max_total_size, cur, 25)
                            - Budget(max_total_size, cur, 15),
                        [current_size |-> cur + 300, files_included |-> 0, part |-> 346]))

\* context_extractor.py 147-156 and 171-180: a loop that stops at the first
\* file that does not fit.
RECURSIVE FilesLoop(_, _, _, _, _, _)
FilesLoop(files, i, max_files, per_file_limit, threshold, acc) ==
    IF i > max_files THEN acc
    ELSE IF acc.current_size + FileSectionLen(files[i], per_file_limit) > threshold THEN acc
    ELSE FilesLoop(files, i + 1, max_files, per_file_limit, threshold,
                   [current_size |-> acc.current_size + FileSectionLen(files[i], per_file_limit),
                    part |-> acc.part + FileSectionLen(files[i], per_file_limit)])

\* context_extractor.py 136-156: the newly imported files; cur0 is
\* current_size after the structure section, cur the one after the changed files.
ImportedPart(files, max_total_size, cur0, cur) ==
    IF files # <<>> /\ max_total_size - cur > 1000
    THEN FilesLoop(files, 1, Min(Len(files), 5),
                   Min(Budget(max_total_size, cur0, 25) \div Max(Min(Len(files), 5), 1), 8000),
                   max_total_size - Budget(max_total_size, cur0, 15),
                   [current_size |-> cur + 200, part |-> 262])
    ELSE [current_size |-> cur, part |-> 0]

\* context_extractor.py 158-180: the related files.
RelatedPart(files, max_total_size, cur) ==
    IF files # <<>> /\ max_total_size - cur > 1000
    THEN FilesLoop(files, 1, Min(Len(files), 3),
                   Min((max_total_size - cur) \div Max(Min(Len(files), 3), 1), 5000),
                   max_total_size,
                   [current_size |-> cur + 60, part |-> 77])
    ELSE [current_size |-> cur, part |-> 0]

PartsAfterImported(ctx, max_total_size, changed, imported) ==
    [changed |-> changed.part,
     imported |-> imported.part,
     related |-> RelatedPart(ctx.related_files, max_total_size, imported.current_size).part]

PartsAfterChanged(ctx, max_total_size, cur0, changed) ==
    PartsAfterImported(ctx, max_total_size, changed,
        ImportedPart(ctx.diff_imported_files, max_total_size, cur0, changed.current_size))

\* context_extractor.py 77-182: the lengths of the three parts of the section
\* that ExtractedContext.to_prompt_section builds.
to_prompt_section(ctx, max_total_size) ==
    PartsAfterChanged(ctx, max_total_size, StructSectionLen(ctx),
        ChangedPart(ctx.changed_files, max_total_size, StructSectionLen(ctx)))

\* review_workflow.py 478-483: the structure text of the intent prompt.
IntentStructLen(ctx) == IF ctx.tree = 0 THEN 0 ELSE 34 + Min(ctx.tree, 1500)

\* review_workflow.py 494-501: the texts of the changed files, each cut to
\* file_limit (content_for_prompt is the content cut to 10000 characters).
RECURSIVE IntentFilesLen(_, _, _, _)
IntentFilesLen(files, i, max_files, file_limit) ==
    IF i > max_files THEN 0
    ELSE files[i].path + files[i].lang + Min(Min(files[i].content, 10000), file_limit) + 15
         + IntentFilesLen(files, i + 1, max_files, file_limit)

\* review_workflow.py 472-501: the budget left after the structure text and
\* the length of the changed-files part of _build_intent_analysis_prompt.
build_intent_changed_part(ctx) ==
    [remaining |-> 60000 - IntentStructLen(ctx),
     changed |->
        IF ctx.changed_files = <<>> THEN 0
        ELSE 33 + IntentFilesLen(ctx.changed_files, 1, Min(Len(ctx.changed_files), 5),
                    Min(Budget(60000, IntentStructLen(ctx), 40)
                            \div Max(Min(Len(ctx.changed_files), 5), 1), 8000))]

\* review_workflow.py 472: max_prompt_size.
IntentPromptBudget == 60000

\* The counted size of the changed-files part: its header counts as 35.
IntentChangedCounted(ctx) ==
    IF ctx.changed_files = <<>> THEN 0 ELSE build_intent_changed_part(ctx).changed + 2

\* review_workflow.py 503-535: a list of files added if the budget left after
\* the reserve for the diff is above the floor; counted is what is added to
\* current_size, len the length of the text.
IntentFilesPart(files, cur, reserve, floor, max_n, cap, counted_header, header) ==
    IF files # <<>> /\ IntentPromptBudget - cur - reserve > floor
    THEN [counted |-> counted_header
                      + IntentFilesLen(files, 1, Min(Len(files), max_n),
                            Min((IntentPromptBudget - cur - reserve)
                                    \div Max(Min(Len(files), max_n), 1), cap)),
          len |-> header
                  + IntentFilesLen(files, 1, Min(Len(files), max_n),
                        Min((IntentPromptBudget - cur - reserve)
                                \div Max(Min(Len(files), max_n), 1), cap))]
    ELSE [counted |-> 0, len |-> 0]

\* review_workflow.py 537-541: the diff, cut to the budget left (at least
\* 10000) and marked.
IntentDiffLen(diff, cur) ==
    IF diff > Max(IntentPromptBudget - cur - 2000, 10000)
    THEN Max(IntentPromptBudget - cur - 2000, 10000) + 21
    ELSE diff

IntentAfterImported(diff, len, cur, imported) ==
    [context |-> len + imported.len, diff |-> IntentDiffLen(diff, cur + imported.counted)]

IntentAfterRelated(ctx, diff, len, cur, related) ==
    IntentAfterImported(diff, len + related.len, cur + related.counted,
        IntentFilesPart(ctx.diff_imported_files, cur + related.counted,
                        15000, 3000, 5, 6000, 180, 198))

\* review_workflow.py 466-541: the lengths of the context section and of the
\* diff text of the intent prompt.
build_intent_prompt_sizes(ctx, diff) ==
    IntentAfterRelated(ctx, diff,
        IntentStructLen(ctx) + build_intent_changed_part(ctx).changed,
        IntentStructLen(ctx) + IntentChangedCounted(ctx),
        IntentFilesPart(ctx.related_files, IntentStructLen(ctx) + IntentChangedCounted(ctx),
                        20000, 2000, 2, 3000, 30, 26))

\* review_workflow.py 520-535: the length of the newly-imported part, built
\* after the related part has been added to current_size.
build_intent_imported_part(ctx) ==
    IntentFilesPart(ctx.diff_imported_files,
        IntentStructLen(ctx) + IntentChangedCounted(ctx)
            + IntentFilesPart(ctx.related_files,
                  IntentStructLen(ctx) + IntentChangedCounted(ctx),
                  20000, 2000, 2, 3000, 30, 26).counted,
        15000, 3000, 5, 6000, 180, 198).len

SmallFile == [path |-> 20, lang |-> 6, content |-> 100]
FillFile == [path |-> 20, lang |-> 6, content |-> 2970]
LongPathFile == [path |-> 1000, lang |-> 10, content |-> 50000]
BigFile == [path |-> 20, lang |-> 6, content |-> 50000]
FileLists ==
    {<<>>, <<SmallFile>>, <<BigFile>>, <<SmallFile, BigFile>>,
     <<BigFile, BigFile, BigFile, BigFile, BigFile>>,
     <<BigFile, BigFile, FillFile>>,
     <<LongPathFile, LongPathFile, LongPathFile, LongPathFile, LongPathFile>>}
ContextInputs ==
    [tree : {0, 1800}, changed_files : FileLists, diff_imported_files : FileLists,
     related_files : FileLists]
PromptSizes == {40000, 100000}

EvalToPromptSection ==
    /\ pure = NoEval
    /\ \E ctx \in ContextInputs, max_total_size \in PromptSizes :
          pure' = [op |-> "to_prompt_section",
                   arg |-> [ctx |-> ctx, max_total_size |-> max_total_size],
                   out |-> to_prompt_section(ctx, max_total_size)]
    /\ UNCHANGED <<wvars, cwr>>

EvalIntentPrompt ==
    /\ pure = NoEval
    /\ \E ctx \in ContextInputs, diff \in {1000, 50000} :
          pure' = [op |-> "_build_intent_analysis_prompt", arg |-> [ctx |-> ctx, diff |-> diff],
                   out |-> [remaining |-> build_intent_changed_part(ctx).remaining,
                            changed |-> build_intent_changed_part(ctx).changed,
                            imported |-> build_intent_imported_part(ctx),
                            context |-> build_intent_prompt_sizes(ctx, diff).context,
                            diff |-> build_intent_prompt_sizes(ctx, diff).diff]]
    /\ UNCHANGED <<wvars, cwr>>

\* ------------------------------------------- ContextExtractor.extract_context
\* context_extractor.py 458: a file with more changes is skipped.
MaxChangesForContent == 5000

\* context_extractor.py 491: max_related of get_related_files.
MaxRelatedFetched == 5
\* context_extractor.py 638: max_files of get_diff_imported_files.
MaxImportedFetched == 10

\* The blobs of the repository tree.
RepoFiles == {"a.py", "b.py", "utils/logger.py"}

\* _resolve_import_to_file, python: the first candidate path of a module path.
ImportCandidate(imp) ==
    IF imp = "utils.logger" THEN "utils/logger.py"
    ELSE IF imp = "a" THEN "a.py"
    ELSE "missing/mod.py"

\* _resolve_import_to_file: the candidate if it is a file of the repository,
\* else None.
resolve_import_to_file(imp, repo_files) ==
    IF ImportCandidate(imp) \in repo_files THEN ImportCandidate(imp) ELSE None

\* get_changed_files_content: the loop body's test for one file of the
\* change set (skip removed and large files, keep a successful fetch within
\* the size limit; a failed or raising fetch is logged).
ContentKept(f) ==
    f.status # "removed" /\ f.changes <= MaxChangesForContent /\ f.fetch = "ok"

\* get_changed_files_content: the FileContext list.
get_changed_files_content(files) == SelectSeq(files, ContentKept)

\* A tree listing whose failure leaves the extractor.
get_repo_structure_propagating(tree) ==
    [raised |-> tree # "ok", file_count |-> IF tree = "ok" THEN Cardinality(RepoFiles) ELSE 0]

\* get_repo_structure: the structure, empty when the tree request fails.
get_repo_structure(tree) ==
    [raised |-> FALSE, file_count |-> IF tree = "ok" THEN Cardinality(RepoFiles) ELSE 0]

PathsOf(fs) == {fs[i].filename : i \in 1..Len(fs)}

\* Related paths that are not checked against the changed files.
RelatedPathsUnfiltered(changed) ==
    UNION {{ImportCandidate(changed[i].imports[j]) : j \in 1..Len(changed[i].imports)} :
              i \in 1..Len(changed)} \cap RepoFiles

\* get_related_files: the imports of the changed files that resolve to a file
\* of the repository which is not itself changed.
RelatedPaths(changed) ==
    UNION {{resolve_import_to_file(changed[i].imports[j], RepoFiles) :
               j \in 1..Len(changed[i].imports)} : i \in 1..Len(changed)}
        \ ({None} \cup PathsOf(changed))

RECURSIVE SeqOfSet(_)
SeqOfSet(S) == IF S = {} THEN <<>> ELSE <<CHOOSE x \in S : TRUE>> \o SeqOfSet(S \ {CHOOSE x \in S : TRUE})

\* get_related_files: [] when the tree request fails; else the related paths
\* whose content fetch succeeds.
get_related_files(changed, tree, rel_fetch) ==
    IF tree # "ok" THEN <<>>
    ELSE IF rel_fetch = "ok" THEN SeqOfSet(RelatedPaths(changed))
    ELSE <<>>

\* get_diff_imported_files: the imports added by the diff that resolve to a
\* file of the repository outside changed_paths.
ResolvedPaths(diff_imports, changed_paths) ==
    {resolve_import_to_file(diff_imports[j], RepoFiles) : j \in 1..Len(diff_imports)}
        \ ({None} \cup changed_paths)

\* get_diff_imported_files: [] without new imports or when the tree request
\* fails; else the resolved paths whose content fetch succeeds.
get_diff_imported_files(diff_imports, changed_paths, tree, fetch) ==
    IF diff_imports = <<>> \/ tree # "ok" \/ fetch # "ok" THEN <<>>
    ELSE SeqOfSet(ResolvedPaths(diff_imports, changed_paths))

\* context_extractor.py 508-511, 668-671: a tree listing fetched to resolve
\* imports.
RelatedTreeListed(files, include_related) ==
    include_related /\ get_changed_files_content(files) # <<>>
ImportsTreeListed(diff_imports, include_related) ==
    include_related /\ diff_imports # <<>>

SeqToSet(q) == {q[i] : i \in 1..Len(q)}

\* context_extractor.py 765-781: the related files, looked for only with
\* include_related and a non-empty list of changed files.
RelatedOf(files, rel_tree, rel_fetch, include_related) ==
    IF RelatedTreeListed(files, include_related)
    THEN get_related_files(get_changed_files_content(files), rel_tree, rel_fetch)
    ELSE <<>>

\* The tree listings and content fetches made for related and newly-imported
\* files.
ImportLookups(files, rel_tree, include_related, diff_imports, imp_tree) ==
    [tree_listings |-> (IF RelatedTreeListed(files, include_related) THEN 1 ELSE 0)
                       + (IF ImportsTreeListed(diff_imports, include_related) THEN 1 ELSE 0),
     fetches |-> (IF RelatedTreeListed(files, include_related) /\ rel_tree = "ok"
                  THEN Min(Cardinality(RelatedPaths(get_changed_files_content(files))),
                           MaxRelatedFetched)
                  ELSE 0)
                 + (IF ImportsTreeListed(diff_imports, include_related) /\ imp_tree = "ok"
                    THEN Min(Cardinality(ResolvedPaths(diff_imports,
                                 PathsOf(get_changed_files_content(files))
                                     \cup SeqToSet(RelatedOf(files, rel_tree, "ok",
                                                             include_related)))),
                             MaxImportedFetched)
                    ELSE 0)]

\* extract_context with include_structure and a diff that is not empty.
extract_context(files, tree, rel_tree, rel_fetch, include_related, diff_imports, imp_tree) ==
    [raised |-> get_repo_structure(tree).raised,
     changed_files |-> get_changed_files_content(files),
     repo_structure |-> get_repo_structure(tree),
     related_files |-> RelatedOf(files, rel_tree, rel_fetch, include_related),
     diff_imported_files |->
         IF include_related
         THEN get_diff_imported_files(diff_imports,
                  PathsOf(get_changed_files_content(files))
                      \cup SeqToSet(RelatedOf(files, rel_tree, rel_fetch, include_related)),
                  imp_tree, rel_fetch)
         ELSE <<>>,
     lookups |-> ImportLookups(files, rel_tree, include_related, diff_imports, imp_tree)]

\* review_workflow.py 188-258: the update fetch_pr_data returns in full mode
\* from what extract_context produced.
FetchUpdateOf(extracted) ==
    FetchUpdate(IF extracted.raised THEN "extract" ELSE "none", "full",
                Len(extracted.changed_files), Len(extracted.changed_files),
                Len(extracted.related_files),
                IF extracted.changed_files # <<>> THEN <<"## Repository Structure">> ELSE <<>>)

\* Files of a change set: status, changes, the outcome of get_file_content
\* for the file, and the modules its content imports.
PrFilesA ==
    [filename : {"a.py"}, status : {"modified", "removed"}, changes : {10, 6000},
     fetch : {"ok", "failed", "raised", "too_large"},
     imports : {<<>>, <<"utils.logger">>, <<"missing.mod">>}]

PrFileB == [filename |-> "b.py", status |-> "added", changes |-> 3, fetch |-> "ok",
            imports |-> <<"a", "utils.logger">>]

ExtractInputs ==
    [files : {<<a>> : a \in PrFilesA} \cup {<<a, PrFileB>> : a \in PrFilesA},
     tree : {"ok", "failed"}, rel_tree : {"ok", "failed"},
     rel_fetch : {"ok", "failed", "raised"}, include_related : BOOLEAN,
     diff_imports : {<<>>, <<"a", "utils.logger">>}, imp_tree : {"ok", "failed"}]

EvalExtractContext ==
    /\ pure = NoEval
    /\ \E i \in ExtractInputs :
          pure' = [op |-> "extract_context", arg |-> i,
                   out |-> [extracted |-> extract_context(i.files, i.tree, i.rel_tree,
                                              i.rel_fetch, i.include_related,
                                              i.diff_imports, i.imp_tree),
                            update |-> FetchUpdateOf(extract_context(i.files, i.tree, i.rel_tree,
                                              i.rel_fetch, i.include_related,
                                              i.diff_imports, i.imp_tree))]]
    /\ UNCHANGED <<wvars, cwr>>

\* ------------------------------------------ fetch_pr_data: the size limits
\* Diff texts are modelled by their lengths: a diff is the sequence of the
\* lengths of its per-file sections (each starts with a "diff --git" line),
\* joined by newlines; section k is the diff of file k of the change set.
\* A file of the change set is its position, its extension and its changes.

\* review_workflow.py 194: files handed to extract_context in summary mode.
MaxFilesForContextSummary == 10
\* pr_size_limits.py 228: files whose diff sections are kept first.
MaxPriorityDiffFiles == 20
\* pr_size_limits.py 141 and review_workflow.py 185: lengths of the suffixes.
TruncatedSuffixLen == 16
DiffTruncatedSuffixLen == 33

RECURSIVE SumLens(_, _)
SumLens(lens, i) == IF i > Len(lens) THEN 0 ELSE lens[i] + SumLens(lens, i + 1)

\* len(diff) of a diff made of the given sections.
RawDiffLen(lens) == IF lens = <<>> THEN 0 ELSE SumLens(lens, 1) + Len(lens) - 1

\* The changes of files lo..hi, added up by halves.
RECURSIVE SumChanges(_, _, _)
SumChanges(files, lo, hi) ==
    IF lo > hi THEN 0
    ELSE IF lo = hi THEN files[lo].changes
    ELSE SumChanges(files, lo, (lo + hi) \div 2) + SumChanges(files, (lo + hi) \div 2 + 1, hi)

\* pr_size_limits.py 107-139: calculate_pr_metrics.
calculate_pr_metrics(files, lens) ==
    [file_count |-> Len(files), total_changes |-> SumChanges(files, 1, Len(files)),
     diff_size_chars |-> RawDiffLen(lens)]

\* content.rfind(newline, 0, truncate_at): no newline, one in the first half
\* of the text, or one just before the cut.
LastNewline(nl, truncate_at) ==
    IF nl = "none" \/ truncate_at = 0 THEN 0 - 1
    ELSE IF nl = "early" THEN truncate_at \div 2
    ELSE truncate_at - 1

\* The end of the slice content[:k] of a text of len characters: a negative
\* k counts from the end of the text.
SliceEnd(len, k) == IF k >= 0 THEN Min(k, len) ELSE Max(len + k, 0)

\* A truncation that appends the suffix after max_size characters.
truncate_content_after_limit(len, max_size, suffix_len, nl) ==
    IF len <= max_size THEN len ELSE max_size + suffix_len

\* pr_size_limits.py 141-162: the length of truncate_content's result.
truncate_content(len, max_size, suffix_len, nl) ==
    IF len <= max_size THEN len
    ELSE IF LastNewline(nl, SliceEnd(len, max_size - suffix_len)) * 10
               > (max_size - suffix_len) * 8
    THEN SliceEnd(len, LastNewline(nl, SliceEnd(len, max_size - suffix_len))) + suffix_len
    ELSE SliceEnd(len, max_size - suffix_len) + suffix_len

\* pr_size_limits.py 180-188: type_priority, for the extensions of the model.
ExtPriority(ext) ==
    CASE ext = ".py" -> 10
      [] ext = ".json" -> 4
      [] ext = ".md" -> 2
      [] OTHER -> 0

\* A priority whose changed-line part is not capped.
get_priority_uncapped(f) == ExtPriority(f.ext) * 1000 + f.changes

\* pr_size_limits.py 190-202: get_priority.
get_priority(f) == ExtPriority(f.ext) * 1000 + Min(f.changes, 500)

MaxOf(S) == CHOOSE x \in S : \A y \in S : y <= x

\* sorted(..., reverse=True): a stable sort by descending key.
RECURSIVE SortDescByKey(_, _)
SortDescByKey(pairs, keys) ==
    IF keys = {} THEN <<>>
    ELSE SelectSeq(pairs, LAMBDA p : p.key = MaxOf(keys))
         \o SortDescByKey(pairs, keys \ {MaxOf(keys)})

KeyedFiles(files) == [i \in 1..Len(files) |-> [key |-> get_priority(files[i]), item |-> files[i]]]
KeysOf(pairs) == {pairs[i].key : i \in 1..Len(pairs)}
ItemsOf(pairs) == [i \in 1..Len(pairs) |-> pairs[i].item]

\* A prioritization that always sorts.
prioritize_files_sorting(files, max_files) ==
    SubSeq(ItemsOf(SortDescByKey(KeyedFiles(files), KeysOf(KeyedFiles(files)))),
           1, Min(Len(files), max_files))

\* pr_size_limits.py 165-209: prioritize_files.
prioritize_files(files, max_files) ==
    IF Len(files) <= max_files THEN files
    ELSE SubSeq(ItemsOf(SortDescByKey(KeyedFiles(files), KeysOf(KeyedFiles(files)))),
                1, max_files)

FileIds(files) == {files[i].id : i \in 1..Len(files)}

\* pr_size_limits.py 252-259: file_priority, as one number: sections of
\* priority files first, shorter sections first.
KeyedSections(lens, priority_ids) ==
    [k \in 1..Len(lens) |->
        [key |-> (IF k \in priority_ids THEN 1000000 ELSE 0) - lens[k], item |-> lens[k]]]

\* pr_size_limits.py 261-281: the loop over the sorted sections.  size is
\* current_size, total the length of the parts appended, parts their number.
RECURSIVE DiffLoop(_, _, _, _, _, _, _)
DiffLoop(secs, i, size, total, parts, max_size, nl) ==
    IF i > Len(secs) THEN [total |-> total, parts |-> parts]
    ELSE IF size + secs[i] + 100 <= max_size
    THEN DiffLoop(secs, i + 1, size + secs[i] + 1, total + secs[i], parts + 1, max_size, nl)
    ELSE IF size * 10 < max_size * 9
    THEN [total |-> total + truncate_content(secs[i], max_size - size - 100,
                                             TruncatedSuffixLen, nl),
          parts |-> parts + 1]
    ELSE DiffLoop(secs, i + 1, size, total, parts, max_size, nl)

Digits(n) == IF n < 10 THEN 1 ELSE IF n < 100 THEN 2 ELSE 3

\* pr_size_limits.py 283-286: the "more files not shown" line and the join.
JoinedLen(built, nsecs) ==
    IF built.parts < nsecs
    THEN built.total + 28 + Digits(nsecs - built.parts) + built.parts
    ELSE built.total + Max(built.parts - 1, 0)

\* pr_size_limits.py 212-286: the length of smart_diff_truncate's result.
smart_diff_truncate(lens, max_size, files, nl) ==
    IF RawDiffLen(lens) <= max_size THEN RawDiffLen(lens)
    ELSE JoinedLen(
           DiffLoop(ItemsOf(SortDescByKey(
                        KeyedSections(lens, FileIds(prioritize_files(files, MaxPriorityDiffFiles))),
                        KeysOf(KeyedSections(lens,
                                   FileIds(prioritize_files(files, MaxPriorityDiffFiles)))))),
                    1, 0, 0, 0, max_size, nl),
           Len(lens))

\* review_workflow.py 172-176: files_to_process.
FilesToProcess(mode, files) ==
    IF mode = "summary" THEN prioritize_files(files, max_files_for_full_analysis) ELSE files

\* A node that hands every file to extract_context.
FilesForContextUncapped(mode, files) == FilesToProcess(mode, files)

\* review_workflow.py 194, 202: pr_files = files_to_process[:max_files_for_context].
FilesForContext(mode, files) ==
    SubSeq(FilesToProcess(mode, files), 1,
           Min(Len(FilesToProcess(mode, files)),
               IF mode # "summary" THEN max_files_for_full_analysis
               ELSE MaxFilesForContextSummary))

\* review_workflow.py 144-187: the length of the stored diff_content.
StoredDiffLen(mode, lens, files, nl) ==
    IF mode = "diff_only" THEN smart_diff_truncate(lens, max_diff_size * 2, files, nl)
    ELSE IF mode = "summary"
    THEN smart_diff_truncate(lens, max_diff_size, FilesToProcess(mode, files), nl)
    ELSE IF mode = "truncated"
    THEN truncate_content(RawDiffLen(lens), max_diff_size, DiffTruncatedSuffixLen, nl)
    ELSE RawDiffLen(lens)

\* Related files looked for in every mode but summary.
IncludeRelatedUnlessSummary(mode) == mode # "summary"

\* review_workflow.py 193: include_related = processing_mode == "full".
IncludeRelated(mode) == mode = "full"

\* context_extractor.py 448-465: the files get_changed_files_content asks
\* get_file_content for.
ChangedFetches(files) ==
    Cardinality({i \in 1..Len(files) :
                    files[i].status # "removed" /\ files[i].changes <= MaxChangesForContent})

\* review_workflow.py 144-207, context_extractor.py 750-781: the calls of
\* get_file_content in one run of fetch_pr_data, for a change set whose
\* imports resolve to related_paths files and whose added imports resolve to
\* resolved_paths files (every changed file fetched has content, and the
\* stored diff is not empty).
ContentFetches(mode, files, related_paths, resolved_paths) ==
    IF mode = "diff_only" THEN [changed |-> 0, related |-> 0, imported |-> 0]
    ELSE [changed |-> ChangedFetches(FilesForContext(mode, files)),
          related |-> IF IncludeRelated(mode)
                         /\ ChangedFetches(FilesForContext(mode, files)) > 0
                      THEN Min(related_paths, MaxRelatedFetched) ELSE 0,
          imported |-> IF IncludeRelated(mode)
                       THEN Min(resolved_paths, MaxImportedFetched) ELSE 0]

\* Change sets: n source files with 10 changes each, or n - 1 documentation
\* files followed by one source file with many changes.
FilesOf(n, pattern) ==
    [i \in 1..n |->
        IF pattern = "docs_first" /\ i < n
        THEN [id |-> i, ext |-> ".md", changes |-> 1,
              status |-> IF i = 1 THEN "removed" ELSE "modified"]
        ELSE IF pattern = "docs_first"
        THEN [id |-> i, ext |-> ".py", changes |-> 4500, status |-> "modified"]
        ELSE [id |-> i, ext |-> ".py", changes |-> 10, status |-> "modified"]]

ChangeSetSizes == {3, 11, 151, 201}
DiffLists ==
    {<<1000>>, <<30000, 30000>>, <<60000>>, <<49900, 200, 500>>, <<120000, 400>>,
     <<45000, 4850, 3000>>, <<90000, 9000, 9000>>}
LimitInputs ==
    [n : ChangeSetSizes, pattern : {"source", "docs_first"}, lens : DiffLists,
     nl : {"none", "early", "late"}, related_paths : {0, 7}, resolved_paths : {0, 12}]

\* The processing mode fetch_pr_data chooses for an input.
ModeOf(i) == get_recommended_mode(calculate_pr_metrics(FilesOf(i.n, i.pattern), i.lens))

EvalFetchLimits ==
    /\ pure = NoEval
    /\ \E i \in LimitInputs :
          pure' = [op |-> "fetch_pr_data", arg |-> i,
                   out |-> [mode |-> ModeOf(i),
                            raw_len |-> RawDiffLen(i.lens),
                            diff_len |-> StoredDiffLen(ModeOf(i), i.lens,
                                                       FilesOf(i.n, i.pattern), i.nl),
                            context_files |->
                                IF ModeOf(i) = "diff_only" THEN <<>>
                                ELSE FilesForContext(ModeOf(i), FilesOf(i.n, i.pattern)),
                            fetches |-> ContentFetches(ModeOf(i), FilesOf(i.n, i.pattern),
                                                       i.related_paths, i.resolved_paths)]]
    /\ UNCHANGED <<wvars, cwr>>

\* ------------------------------------------------ SemgrepClient.analyze_diff
\* A patch is the sequence of its lines and a line the sequence of its
\* characters, so that the prefix tests of the code are tests on the text.
StartsWith(line, prefix) ==
    Len(line) >= Len(prefix) /\ SubSeq(line, 1, Len(prefix)) = prefix

\* semgrep_client.py 476: the prefixes of the lines skipped as diff headers.
DiffHeaderPrefixes ==
    {<<"d", "i", "f", "f", " ">>, <<"i", "n", "d", "e", "x", " ">>,
     <<"-", "-", "-", " ">>, <<"+", "+", "+", " ">>,
     <<"\\", " ", "N", "o", " ", "n", "e", "w", "l", "i", "n", "e">>}

IsDiffHeader(line) == \E prefix \in DiffHeaderPrefixes : StartsWith(line, prefix)

\* semgrep_client.py 474-495: the loop over the lines of the patch.
RECURSIVE PatchLoop(_, _, _, _)
PatchLoop(patch, i, in_hunk, lines) ==
    IF i > Len(patch) THEN lines
    ELSE IF IsDiffHeader(patch[i]) THEN PatchLoop(patch, i + 1, in_hunk, lines)
    ELSE IF StartsWith(patch[i], <<"@", "@">>) THEN PatchLoop(patch, i + 1, TRUE, lines)
    ELSE IF ~in_hunk THEN PatchLoop(patch, i + 1, in_hunk, lines)
    ELSE IF StartsWith(patch[i], <<"-">>) THEN PatchLoop(patch, i + 1, in_hunk, lines)
    ELSE IF StartsWith(patch[i], <<"+">>) \/ StartsWith(patch[i], <<" ">>)
    THEN PatchLoop(patch, i + 1, in_hunk, Append(lines, Tail(patch[i])))
    ELSE PatchLoop(patch, i + 1, in_hunk, Append(lines, patch[i]))

\* semgrep_client.py 457-502: the reconstructed lines, or None for an empty
\* patch or a patch that yields no line.
extract_file_content_from_patch(patch) ==
    IF patch = <<>> \/ PatchLoop(patch, 1, FALSE, <<>>) = <<>>
    THEN [none |-> TRUE, lines |-> <<>>]
    ELSE [none |-> FALSE, lines |-> PatchLoop(patch, 1, FALSE, <<>>)]

\* semgrep_client.py 119-144: the extensions semgrep has rulesets for.
SemgrepExts == {".py"}
detect_languages(files) ==
    {files[i].ext : i \in {j \in 1..Len(files) : files[j].ext \in SemgrepExts}}

\* semgrep_client.py 352-359: the content a file is materialized from.
FileContentOf(f, full_file_contents) ==
    IF f.filename \in DOMAIN full_file_contents
    THEN [none |-> FALSE, lines |-> full_file_contents[f.filename]]
    ELSE extract_file_content_from_patch(f.patch)

\* semgrep_client.py 343-372: the files written to the temporary directory.
RECURSIVE WriteFiles(_, _, _, _)
WriteFiles(files, i, full_file_contents, write_ok) ==
    IF i > Len(files) THEN <<>>
    ELSE IF files[i].status = "removed"
            \/ FileContentOf(files[i], full_file_contents).none
            \/ ~write_ok
    THEN WriteFiles(files, i + 1, full_file_contents, write_ok)
    ELSE <<[filename |-> files[i].filename,
            content |-> FileContentOf(files[i], full_file_contents).lines]>>
         \o WriteFiles(files, i + 1, full_file_contents, write_ok)

\* semgrep_client.py 304-456: analyze_diff up to the subprocess call: the files
\* written, and whether semgrep is run on them.
analyze_diff(files, full_file_contents, write_ok) ==
    IF files = <<>> \/ detect_languages(files) = {}
    THEN [written |-> <<>>, invoked |-> FALSE]
    ELSE [written |-> WriteFiles(files, 1, full_file_contents, write_ok),
          invoked |-> WriteFiles(files, 1, full_file_contents, write_ok) # <<>>]

\* Lines of a patch: a hunk header, an added, a removed and a context line,
\* and the added line whose text starts with two plus signs and a space.
HunkLine == <<"@", "@">>
AddedLine == <<"+", "a">>
RemovedLine == <<"-", "b">>
ContextLine == <<" ", "c">>
AddedPlusLine == <<"+", "+", "+", " ", "i">>
PatchLines == {HunkLine, AddedLine, RemovedLine, ContextLine, AddedPlusLine}
MaxPatchLen == 3
Patches == UNION {[1..n -> PatchLines] : n \in 0..MaxPatchLen}
FullText == <<<<"x">>>>
FullContents == {<<>>, [f \in {1} |-> FullText]}
OneFileLists ==
    {<<[filename |-> 1, ext |-> ".py", status |-> status, patch |-> p]>> :
        status \in {"modified", "removed"}, p \in Patches}
FewPatches == {<<>>, <<HunkLine, AddedLine>>, <<HunkLine, RemovedLine>>}
TwoFileLists ==
    {<<[filename |-> 1, ext |-> e, status |-> status1, patch |-> p1],
       [filename |-> 2, ext |-> ".md", status |-> status2, patch |-> p2]>> :
        e \in {".py", ".md"}, status1 \in {"modified", "removed"},
        status2 \in {"modified", "removed"}, p1 \in FewPatches, p2 \in FewPatches}

EvalAnalyzeDiff ==
    /\ pure = NoEval
    /\ \E files \in {<<>>} \cup OneFileLists \cup TwoFileLists,
          full \in FullContents, write_ok \in BOOLEAN :
          pure' = [op |-> "analyze_diff",
                   arg |-> [files |-> files, full_file_contents |-> full,
                            write_ok |-> write_ok],
                   out |-> analyze_diff(files, full, write_ok)]
    /\ UNCHANGED <<wvars, cwr>>

\* --------------------------------------- _perform_ai_review: parsing a result
\* An entry of the issues list of a decoded response: an object with all its
\* fields, an object without severity, type, file and description, an object
\* whose severity is null, or a value that is not an object.
IssueEntries == {"complete", "missing_fields", "null_severity", "not_object"}
MaxIssueEntries == 2
IssueLists == UNION {[1..n -> IssueEntries] : n \in 0..MaxIssueEntries}

\* The score of a decoded response: absent, or an integer.
ResultScores == {0, 7, 11}
DecodedResults ==
    [has_score : {TRUE}, score : ResultScores, issues : IssueLists]
    \cup [has_score : {FALSE}, score : {0}, issues : IssueLists]

IsObjectEntry(entry) == entry # "not_object"

\* schemas.py 114-123: ReviewIssue takes severity, type, file and description
\* as strings; issue.get(key, default) gives the default for a missing key and
\* None for a null, which is not a string.
ReviewIssueValid(entry) == entry # "null_severity"

\* review.py 161: result.get('score', 5).
ScoreOf(result) == IF result.has_score THEN result.score ELSE DefaultScore

ObjectEntries(issues) == {i \in 1..Len(issues) : IsObjectEntry(issues[i])}

\* review.py 156-192: the verdict built from a decoded result; a validation
\* error of CodeReviewResult or of a ReviewIssue gives the verdict of the
\* except branch, which has no issue.
parse_review_result(result) ==
    IF ~CodeReviewResult("summary", ScoreOf(result), 0, FALSE).valid
       \/ \E i \in ObjectEntries(result.issues) : ~ReviewIssueValid(result.issues[i])
    THEN FallbackReview.review
    ELSE CodeReviewResult("summary", ScoreOf(result),
                          Cardinality(ObjectEntries(result.issues)), FALSE).review

EvalParseReviewResult ==
    /\ pure = NoEval
    /\ \E result \in DecodedResults :
          pure' = [op |-> "_perform_ai_review", arg |-> [result |-> result],
                   out |-> parse_review_result(result)]
    /\ UNCHANGED <<wvars, cwr>>

\* --------------------------------------------------------- truncate_content
\* Lengths of contents, size limits around the length of the suffix, and the
\* two suffixes the code uses.
ContentLens == {0, 5, 16, 17, 40, 100}
SizeLimits == {0, 5, 15, 16, 17, 30, 100}

EvalTruncateContent ==
    /\ pure = NoEval
    /\ \E len \in ContentLens, max_size \in SizeLimits,
          suffix_len \in {TruncatedSuffixLen, DiffTruncatedSuffixLen},
          nl \in {"none", "early", "late"} :
          pure' = [op |-> "truncate_content",
                   arg |-> [len |-> len, max_size |-> max_size,
                            suffix_len |-> suffix_len, nl |-> nl],
                   out |-> truncate_content(len, max_size, suffix_len, nl)]
    /\ UNCHANGED <<wvars, cwr>>

\* --------------------------------------------------------- prioritize_files
\* Lists of up to MaxPrioritized files, each with an extension of the
\* priority table and a number of changed lines below or above the cap.
MaxPrioritized == 3
PriorityExts == {".py", ".json", ".md"}
PriorityChanges == {1, 600, 7000}
PriorityLists ==
    UNION {{[i \in 1..n |-> [id |-> i, ext |-> e[i], changes |-> c[i]]] :
              e \in [1..n -> PriorityExts], c \in [1..n -> PriorityChanges]} :
           n \in 0..MaxPrioritized}

EvalPrioritizeFiles ==
    /\ pure = NoEval
    /\ \E files \in PriorityLists, max_files \in 1..2 :
          pure' = [op |-> "prioritize_files",
                   arg |-> [files |-> files, max_files |-> max_files],
                   out |-> prioritize_files(files, max_files)]
    /\ UNCHANGED <<wvars, cwr>>

\* ------------------------------------------------ parse_json_with_fallbacks
\* Response texts of up to MaxTextLen tokens: braces, one member, a word of
\* prose and the two code fences.
MaxTextLen == 4
ParseTokens == {"{", "}", "summary", "w", "FENCE_JSON", "FENCE"}
ParseTexts == UNION {[1..n -> ParseTokens] : n \in 0..MaxTextLen}

EvalParseJson ==
    /\ pure = NoEval
    /\ \E text \in ParseTexts :
          pure' = [op |-> "parse_json_with_fallbacks", arg |-> [text |-> text],
                   out |-> parse_json_with_fallbacks(text)]
    /\ UNCHANGED <<wvars, cwr>>

InitPure ==
    /\ Init
    /\ req = [provider |-> "glm", github_token |-> TRUE, api_key |-> TRUE, id_ok |-> TRUE,
              enable_sast |-> TRUE, enable_intent_analysis |-> TRUE,
              retry_until_issues_found |-> TRUE, max_retries |-> MaxCeiling]

NextPure ==
    \/ EvalRecommendedMode
    \/ EvalToPromptSection
    \/ EvalIntentPrompt
    \/ EvalExtractContext
    \/ EvalFetchLimits
    \/ EvalParseJson
    \/ EvalPrioritizeFiles
    \/ EvalAnalyzeDiff
    \/ EvalParseReviewResult
    \/ EvalTruncateContent

SpecPure == InitPure /\ [][NextPure]_vars

\* ---------------------------------------------------------- call_with_retry
\* Largest max_retries argument given to the constructor of a client.
MaxRetriesArg == 2

\* constants.py 9-10.
DEFAULT_MAX_RETRIES == 3
RATE_LIMIT_BACKOFF_MAX == 30

\* Messages of the exceptions a provider call raises, as sequences of words.
ErrRateCode == <<"Error", "code:", "429">>
ErrRateText == <<"Rate", "limit", "reached">>
ErrTimeout == <<"Connection", "timeout">>
ErrAuth == <<"Error", "code:", "401", "authentication_error">>
ProviderErrors == {ErrRateCode, ErrRateText, ErrTimeout, ErrAuth}

\* The response text of a provider call that succeeds.
ProviderText == <<"response">>

\* str.lower() on the words of the messages.
LowerWord(w) ==
    IF w = "Rate" THEN "rate"
    ELSE IF w = "Error" THEN "error"
    ELSE IF w = "Connection" THEN "connection"
    ELSE w

\* "rate limit" in error_msg.lower() or "429" in error_msg.
IsRateLimitError(msg) ==
    \/ \E i \in 1..(Len(msg) - 1) :
           LowerWord(msg[i]) = "rate" /\ LowerWord(msg[i + 1]) = "limit"
    \/ \E i \in 1..Len(msg) : msg[i] = "429"

\* "timeout" in error_msg.lower().
IsTimeoutError(msg) == \E i \in 1..Len(msg) : LowerWord(msg[i]) = "timeout"

\* claude_api_client.py 129-139, glm_api_client.py 127-137: seconds slept
\* after a provider call that raised.
BackoffSeconds(msg, retries) ==
    IF IsRateLimitError(msg) THEN Min(RATE_LIMIT_BACKOFF_MAX, 5 * (retries + 1))
    ELSE IF IsTimeoutError(msg) THEN 2
    ELSE 1

\* A loop that makes one call more than its ceiling.
RetryLoopContinuesOneMore(retries, max_retries) == retries <= max_retries + 1

\* claude_api_client.py 92, glm_api_client.py 96: while retries <= self.max_retries.
RetryLoopContinues(retries, max_retries) == retries <= max_retries

\* __init__ of both clients: self.max_retries = max_retries or DEFAULT_MAX_RETRIES.
ClientMaxRetries(arg) == IF arg # 0 THEN arg ELSE DEFAULT_MAX_RETRIES

\* A client is constructed and call_with_retry is entered.
CallStart ==
    /\ cwr.pc = "idle"
    /\ \E arg \in 0..MaxRetriesArg :
          cwr' = [cwr EXCEPT !.pc = "loop", !.max_retries = ClientMaxRetries(arg)]
    /\ UNCHANGED <<wvars, pure>>

\* One iteration of the loop: the provider call returns a response, or raises
\* and the loop sleeps and counts a retry.
ProviderCall ==
    /\ cwr.pc = "loop"
    /\ RetryLoopContinues(cwr.retries, cwr.max_retries)
    /\ \/ cwr' = [cwr EXCEPT !.pc = "returned",
                             !.outcomes = Append(@, ProviderText),
                             !.result = [success |-> TRUE, text |-> ProviderText,
                                         attempts |-> 0, error |-> <<>>]]
       \/ \E msg \in ProviderErrors :
             cwr' = [cwr EXCEPT !.last_error = msg,
                                !.outcomes = Append(@, msg),
                                !.slept = Append(@, BackoffSeconds(msg, cwr.retries)),
                                !.retries = @ + 1]
    /\ UNCHANGED <<wvars, pure>>

\* All retries exhausted: the failure names the attempts and the last error.
CallExhausted ==
    /\ cwr.pc = "loop"
    /\ ~RetryLoopContinues(cwr.retries, cwr.max_retries)
    /\ cwr' = [cwr EXCEPT !.pc = "returned",
                          !.result = [success |-> FALSE, text |-> <<>>,
                                      attempts |-> cwr.max_retries + 1,
                                      error |-> cwr.last_error]]
    /\ UNCHANGED <<wvars, pure>>

NextCall ==
    \/ CallStart
    \/ ProviderCall
    \/ CallExhausted

\* The loop is sequential code: every provider call and every sleep ends.
SpecCall == InitPure /\ [][NextCall]_vars /\ WF_vars(NextCall)

\* ------------------------------------------------------------------ properties
\* Number of occurrences of a line in a text.
Count(text, line) == Cardinality({i \in DOMAIN text : text[i] = line})

\* start_review went past the workflow_error check and reached the retry loop.
LoopEntered == phase = "loop" \/ (phase = "done" /\ (attempt >= 1 \/ resp.success))

\* C1: with a ceiling N = max_attempts >= 1 the attempts are made one after
\* another (one model call and one prompt per attempt), never more than N; an
\* attempt whose verdict has a finding is the last one; a successful return
\* happens only after such an attempt or after attempt N; and with N = 1 a
\* review that reached the loop has made exactly one synthesis call.
C1_LoopStopsAtFirstFindingWithinCeiling ==
    max_attempts >= 1 =>
        /\ attempt <= max_attempts
        /\ calls.review_llm = attempt
        /\ Len(prompts) = attempt
        /\ Len(all_attempts_results) <= attempt
        /\ \A i \in DOMAIN all_attempts_results :
              all_attempts_results[i] > 0 =>
                  i = Len(all_attempts_results) /\ attempt = i
        /\ (resp.returned /\ resp.success) =>
              \/ attempt = max_attempts
              \/ (all_attempts_results # <<>>
                  /\ all_attempts_results[Len(all_attempts_results)] > 0)
        /\ (max_attempts = 1 /\ phase = "done" /\ LoopEntered) => calls.review_llm = 1

\* A review with ceiling 3 that stopped at its second attempt, which had findings.
C1_Witness ==
    /\ req.retry_until_issues_found
    /\ max_attempts = 3
    /\ resp.returned /\ resp.success
    /\ Len(all_attempts_results) = 2
    /\ all_attempts_results[1] = 0
    /\ all_attempts_results[2] > 0

\* A review with ceiling 1 and no finding that made its single call.
C1_WitnessSingle ==
    max_attempts = 1 /\ resp.returned /\ resp.success /\ all_attempts_results = <<0>>

\* The escalation block of a prompt: present, and where it starts.
HasEscalationBlock(prompt) == \E i \in DOMAIN prompt : prompt[i] = HintHeader
BlockStart(prompt) == CHOOSE i \in DOMAIN prompt : prompt[i] = HintHeader
ChecklistIn(prompt) ==
    SubSeq(prompt, BlockStart(prompt) + 2, BlockStart(prompt) + 1 + Len(Checklist))

\* C2: the prompt of attempt n contains the escalation block iff n > 1, and
\* the checklist inside the block is the same fixed list on every retry.
C2_EscalationBlockIffRetry ==
    \A n \in DOMAIN prompts :
        /\ HasEscalationBlock(prompts[n]) <=> (n > 1)
        /\ n > 1 => /\ Count(prompts[n], HintHeader) = 1
                    /\ prompts[n][BlockStart(prompts[n]) + 1] = ToString(n)
                    /\ ChecklistIn(prompts[n]) = Checklist

\* Three attempts were made: one first attempt and two retries.
C2_Witness ==
    /\ Len(prompts) = 3
    /\ ~HasEscalationBlock(prompts[1])
    /\ HasEscalationBlock(prompts[2])
    /\ ChecklistIn(prompts[2]) = ChecklistIn(prompts[3])

\* C3 (as claimed): once fetch_pr_data ended with workflow_error set, neither
\* run_sast_analysis nor run_intent_analysis nor combine_results is executed
\* and no analyzer invocation or language-model call is made.
C3_AbortBeforeFanOut ==
    StrTruthy(st.workflow_error) =>
        /\ runs["run_sast_analysis"] = 0
        /\ runs["run_intent_analysis"] = 0
        /\ runs["combine_results"] = 0
        /\ calls.analyzer = 0
        /\ calls.intent_llm = 0
        /\ calls.review_llm = 0

\* Fan-out began: fetch_pr_data returned the change set without workflow_error.
FanOutBegun == st.fetched

\* C4: in a run where fan-out begins, combine_results is started at most once,
\* only when both branches have returned and their updates are in the state,
\* and it has been started exactly once when the workflow is over.
C4_CombineOnceAfterBothBranches ==
    FanOutBegun =>
        /\ runs["combine_results"] <= 1
        /\ runs["run_sast_analysis"] <= 1
        /\ runs["run_intent_analysis"] <= 1
        /\ (runs["combine_results"] = 1 \/ "combine_results" \in active) =>
              /\ finished["run_sast_analysis"] = 1
              /\ finished["run_intent_analysis"] = 1
              /\ writes["run_sast_analysis"] = NoWrites
              /\ writes["run_intent_analysis"] = NoWrites
              /\ npc["run_sast_analysis"] = "idle"
              /\ npc["run_intent_analysis"] = "idle"
        /\ phase \in {"loop", "done"} => runs["combine_results"] = 1

\* combine_results is running while both branches have returned, the analyzer
\* branch with a failure and the intent branch with a success.
C4_Witness ==
    /\ FanOutBegun
    /\ npc["combine_results"] = "done"
    /\ runs["combine_results"] = 1
    /\ ~st.sast_success
    /\ st.intent_success

\* C5 (as claimed): every response is success with a verdict and no error, or
\* failure with a non-empty error message.
C5_VerdictOrError ==
    resp.returned =>
        \/ (resp.success /\ ~resp.review.null /\ resp.error = None)
        \/ (~resp.success /\ StrTruthy(resp.error))

\* combine_results has returned and its document is in the state.
CombinedDone == finished["combine_results"] = 1 /\ npc["combine_results"] = "idle"

ContextLines == {"## Analysis Mode", "## Repository Structure"}
SastLines == {SastHeader, SastWarning}
SymbolLines == {"## Symbol Table"}
IntentLines == {IntentHeader, IntentWarning}

SectionStarts(text, lines) == {i \in DOMAIN text : text[i] \in lines}
Before(text, A, B) ==
    \A i \in SectionStarts(text, A), j \in SectionStarts(text, B) : i < j

\* The sections appear in the order context, static analysis, symbol table,
\* intent analysis.
InFixedOrder(text) ==
    /\ Before(text, ContextLines, SastLines \cup SymbolLines \cup IntentLines)
    /\ Before(text, SastLines, SymbolLines \cup IntentLines)
    /\ Before(text, SymbolLines, IntentLines)

C7_CallFailureSurfaced ==
    (resp.returned /\ last_call.kind \in {"failed", "raised"}) =>
        /\ ~resp.success
        /\ resp.error = last_call.error
        /\ resp.stages

\* C8 (as claimed): an undecodable response on the final attempt ends the
\* review with a failure.
C8_FinalDecodeFailureIsError ==
    (resp.returned /\ last_call.kind = "ok" /\ ~last_call.decoded
        /\ attempt = max_attempts) => ~resp.success

\* C8 (amended): an undecodable response is recorded as a verdict without
\* findings; on a non-final attempt the loop goes on to the next attempt, and
\* on the final attempt the loop ends and the response is a success whose
\* verdict has no finding and carries the raw response, without error.
C8_DecodeFailureIsEmptyVerdict ==
    (last_call.kind = "ok" /\ ~last_call.decoded) =>
        /\ all_attempts_results # <<>>
        /\ all_attempts_results[Len(all_attempts_results)] = 0
        /\ ~review.null /\ review.raw_review /\ review.issues = 0
        /\ attempt < max_attempts => (phase = "loop" /\ LoopContinues)
        /\ attempt = max_attempts =>
              /\ phase = "loop" => ~LoopContinues
              /\ phase = "done" =>
                    /\ resp.success
                    /\ resp.error = None
                    /\ resp.review = review

\* A review with ceiling 2 whose two responses could not be decoded returned
\* a success with the raw response as verdict.
C8_Witness ==
    /\ max_attempts = 2
    /\ attempt = 2
    /\ all_attempts_results = <<0, 0>>
    /\ last_call.kind = "ok" /\ ~last_call.decoded
    /\ resp.returned /\ resp.success /\ resp.review.raw_review

\* The step in which run_sast_analysis returns its update.
SastReturns == npc["run_sast_analysis"] = "await" /\ npc'["run_sast_analysis"] = "done"

\* C9 (as claimed): when the analyzer sub-task failed (failure result or
\* exception) and symbol extraction succeeded, the stage returns sast_success
\* = false with sast_error set and the populated symbol table; when symbol
\* extraction failed and the analyzer succeeded, it returns sast_success =
\* true with the findings and an empty symbol table.
C9_SubTasksFailIndependently ==
    [][SastReturns =>
          /\ (tasks.semgrep.kind \in {"failed", "raised"}
                /\ tasks.symbol.kind = "ok" /\ tasks.symbol.n > 0) =>
                /\ writes'["run_sast_analysis"].sast_success = FALSE
                /\ writes'["run_sast_analysis"].sast_error # None
                /\ writes'["run_sast_analysis"].symbol_table_prompt # <<>>
          /\ (tasks.semgrep.kind = "ok" /\ tasks.symbol.kind = "raised") =>
                /\ writes'["run_sast_analysis"].sast_success = TRUE
                /\ writes'["run_sast_analysis"].sast_findings = tasks.semgrep.n
                /\ writes'["run_sast_analysis"].symbol_table_prompt = <<>>]_vars

\* The intent-analysis response was plain prose without JSON.
IntentProse == intent_call.kind = "ok" /\ intent_call.text = TextProse

\* C10: when the intent-analysis response is plain prose, run_intent_analysis
\* returns intent_success = false with an error and no workflow_error; in a
\* run whose fetch left workflow_error unset it is still unset, the combined
\* document contains the intent failure warning, and start_review goes on to
\* the synthesis loop.
C10_ProseIntentIsStageFailure ==
    IntentProse =>
        /\ npc["run_intent_analysis"] = "done" =>
              /\ writes["run_intent_analysis"].intent_success = FALSE
              /\ StrTruthy(writes["run_intent_analysis"].intent_error)
              /\ "workflow_error" \notin DOMAIN writes["run_intent_analysis"]
        /\ npc["run_intent_analysis"] = "idle" =>
              /\ ~st.intent_success
              /\ StrTruthy(st.intent_error)
        /\ CombinedDone => Count(st.combined_prompt, IntentWarning) = 1
        /\ FanOutBegun =>
              /\ st.workflow_error = None
              /\ ~raised
              /\ phase \in {"loop", "done"} => LoopEntered
              /\ (phase = "done" /\ max_attempts >= 1) => calls.review_llm >= 1

\* A run whose intent response was prose, whose document has the warning and
\* whose synthesis loop made a call.
C10_Witness ==
    /\ IntentProse
    /\ FanOutBegun
    /\ CombinedDone
    /\ Count(st.combined_prompt, IntentWarning) = 1
    /\ st.workflow_error = None
    /\ calls.review_llm >= 1
    /\ resp.returned /\ resp.success

\* C11 (as claimed): whatever text the intent call returns, neither
\* run_intent_analysis nor the following combine_analysis_results raises, and
\* start_review reaches the synthesis loop.
C11_IntentResponseNeverCrashes ==
    (intent_call.kind = "ok" /\ FanOutBegun) =>
        /\ ~raised
        /\ phase \in {"loop", "done"} => LoopEntered

C13_DiffOnlyFetchesNoContent ==
    /\ (npc["fetch_pr_data"] = "done"
          /\ "extracted_context" \in DOMAIN writes["fetch_pr_data"]) =>
          /\ "workflow_error" \notin DOMAIN writes["fetch_pr_data"]
          /\ writes["fetch_pr_data"].extracted_context.diff_only_mode
                <=> (calls.content = 0)
          /\ writes["fetch_pr_data"].extracted_context.diff_only_mode =>
                /\ writes["fetch_pr_data"].extracted_context.changed_files = 0
                /\ writes["fetch_pr_data"].extracted_context.related_files = 0
                /\ writes["fetch_pr_data"].context_prompt_section = <<"## Analysis Mode">>
    /\ st.fetched => (st.extracted_context.diff_only_mode <=> (calls.content = 0))
    /\ (st.fetched /\ st.extracted_context.diff_only_mode) =>
          /\ st.workflow_error = None
          /\ st.extracted_context.changed_files = 0
          /\ st.extracted_context.related_files = 0
          /\ calls.symbols = 0
          /\ {"run_sast_analysis", "run_intent_analysis"} \subseteq
                active \cup {n \in Nodes : runs[n] = 1}
          /\ phase \in {"loop", "done"} =>
                (runs["run_sast_analysis"] = 1 /\ runs["run_intent_analysis"] = 1)

\* A diff-only run that reached the synthesis loop without a content fetch.
C13_Witness ==
    /\ st.fetched
    /\ st.extracted_context.diff_only_mode
    /\ calls.content = 0
    /\ calls.analyzer = 1
    /\ phase = "loop"

\* C16 (as claimed): a stage disabled in the request is not executed (no
\* analyzer invocation, no intent language-model call) and leaves no section
\* in the combined document.
C16_DisabledStageNotExecuted ==
    /\ ~req.enable_sast =>
          /\ runs["run_sast_analysis"] = 0
          /\ calls.analyzer = 0
          /\ SectionStarts(st.combined_prompt, SastLines \cup SymbolLines) = {}
    /\ ~req.enable_intent_analysis =>
          /\ runs["run_intent_analysis"] = 0
          /\ calls.intent_llm = 0
          /\ SectionStarts(st.combined_prompt, IntentLines) = {}

\* C14 (as claimed): in to_prompt_section the changed-files, newly-imported
\* and related parts are at most 60%, 25% and 15% of the budget left after
\* the structure section, and in _build_intent_analysis_prompt the
\* changed-files part is at most 40% of the remaining budget.
C14_PartsWithinShares ==
    /\ pure.op = "to_prompt_section" =>
          /\ pure.out.changed * 100
                <= 60 * (pure.arg.max_total_size - StructSectionLen(pure.arg.ctx))
          /\ pure.out.imported * 100
                <= 25 * (pure.arg.max_total_size - StructSectionLen(pure.arg.ctx))
          /\ pure.out.related * 100
                <= 15 * (pure.arg.max_total_size - StructSectionLen(pure.arg.ctx))
    /\ pure.op = "_build_intent_analysis_prompt" =>
          pure.out.changed * 100 <= 40 * pure.out.remaining

\* C15: when every attempt made so far returned a verdict without findings,
\* the loop has not been left before the ceiling, and the review ends after
\* exactly max_attempts attempts with success = true, no error and the
\* verdict without findings.
C15_CleanAfterCeiling ==
    (attempt >= 1 /\ Len(all_attempts_results) = attempt
        /\ \A i \in DOMAIN all_attempts_results : all_attempts_results[i] = 0) =>
        /\ attempt <= max_attempts
        /\ (phase = "loop" /\ attempt < max_attempts) => ~broke
        /\ phase = "done" =>
              /\ attempt = max_attempts
              /\ resp.success
              /\ resp.error = None
              /\ ~resp.review.null
              /\ resp.review.issues = 0

\* Three decoded verdicts without findings under ceiling 3, returned as success.
C15_Witness ==
    /\ max_attempts = 3
    /\ all_attempts_results = <<0, 0, 0>>
    /\ last_call.kind = "ok" /\ last_call.decoded
    /\ resp.returned /\ resp.success /\ resp.review.issues = 0

\* C17: the verdict held after an attempt is the one built from the response
\* of that attempt alone, a successful response returns the verdict of the
\* last attempt, and the recorded attempts are as many as the synthesis calls.
C17_VerdictOfLastAttempt ==
    /\ (last_call.kind = "ok" /\ attempt >= 1) =>
          /\ review = perform_ai_review([kind |-> "ok", text |-> last_call.text,
                                         error |-> ""]).review
          /\ Len(all_attempts_results) = attempt
          /\ all_attempts_results[attempt] = review.issues
    /\ (resp.returned /\ resp.success /\ attempt >= 1) =>
          /\ last_call.kind = "ok"
          /\ resp.review = review
          /\ Len(all_attempts_results) = calls.review_llm

\* No finding on attempts 1 and 2 and two findings on attempt 3 under ceiling
\* 3: the verdict of attempt 3 is returned after 3 recorded attempts.
C17_Witness ==
    /\ max_attempts = 3
    /\ all_attempts_results = <<0, 0, 2>>
    /\ calls.review_llm = 3
    /\ resp.returned /\ resp.success /\ resp.review.issues = 2

\* ---------------------------------------------------------------------------
\* The keys of the update each branch of the fan-out returns.
SastKeys ==
    {"sast_success", "sast_findings", "sast_error", "sast_prompt_section",
     "sast_duration_ms", "languages_detected", "symbol_table_prompt"}

IntentKeys == {"intent_success", "intent_analysis", "intent_error", "intent_duration_ms"}

\* A result record of the SAST branch: success, or failure with its error
\* message, and the measured duration.
SastRecord(w) ==
    /\ DOMAIN w = SastKeys
    /\ w.sast_success \/ w.sast_error # None
    /\ w.sast_duration_ms = "ms"

\* A result record of the intent branch.
IntentRecord(w) ==
    /\ DOMAIN w = IntentKeys
    /\ w.intent_success \/ w.intent_error # None
    /\ w.intent_duration_ms = "ms"

\* C18: once the fan-out has begun, no failure inside a branch cancels the
\* other branch or the workflow: while a branch has not completed both stay
\* scheduled and no exception has left a node, a branch that returns
\* returns a result record (success, or failure with error and duration), and
\* the combine step and the retry loop are reached only after both branches
\* have run to completion.
C18_BranchesCompleteIndependently ==
    FanOutBegun =>
        /\ (phase = "workflow"
            /\ (finished["run_sast_analysis"] = 0 \/ finished["run_intent_analysis"] = 0)) =>
               /\ ~raised
               /\ {"run_sast_analysis", "run_intent_analysis"} \subseteq active
        /\ npc["run_sast_analysis"] = "done" => SastRecord(writes["run_sast_analysis"])
        /\ npc["run_intent_analysis"] = "done" => IntentRecord(writes["run_intent_analysis"])
        /\ (runs["combine_results"] >= 1 \/ phase \in {"loop", "done"}) =>
               /\ finished["run_sast_analysis"] = 1
               /\ finished["run_intent_analysis"] = 1

\* The analyzer raised inside the SAST branch, the intent branch succeeded, and
\* the run went on to the retry loop.
C18_Witness ==
    /\ FanOutBegun
    /\ phase = "loop"
    /\ ~st.sast_success
    /\ st.sast_error = "OSError"
    /\ st.intent_success
    /\ finished["run_sast_analysis"] = 1
    /\ finished["run_intent_analysis"] = 1

\* ---------------------------------------------------------------------------
\* The keys fetch_pr_data assembles.
FetchKeys ==
    {"pr_info", "diff_content", "files", "pr_context", "extracted_context",
     "context_prompt_section"}

\* C19: on every return path run_sast_analysis writes exactly its seven keys
\* and run_intent_analysis exactly its four; the two sets share no key, no
\* other node writes one of them, each branch returns at most once in a run,
\* and neither branch writes workflow_error, combined_prompt or a fetch key.
C19_BranchKeysDisjoint ==
    /\ npc["run_sast_analysis"] = "done" => DOMAIN writes["run_sast_analysis"] = SastKeys
    /\ npc["run_intent_analysis"] = "done" =>
           DOMAIN writes["run_intent_analysis"] = IntentKeys
    /\ DOMAIN writes["run_sast_analysis"] \cap DOMAIN writes["run_intent_analysis"] = {}
    /\ \A n \in Nodes : \A k \in DOMAIN writes[n] :
           /\ k \in SastKeys => n = "run_sast_analysis"
           /\ k \in IntentKeys => n = "run_intent_analysis"
    /\ (DOMAIN writes["run_sast_analysis"] \cup DOMAIN writes["run_intent_analysis"])
           \cap (FetchKeys \cup {"workflow_error", "combined_prompt"}) = {}
    /\ finished["run_sast_analysis"] <= 1
    /\ finished["run_intent_analysis"] <= 1

\* Both branches have returned in the same superstep, the SAST branch through
\* its exception path and the intent branch through its parse-failure path.
C19_Witness ==
    /\ npc["run_sast_analysis"] = "done"
    /\ npc["run_intent_analysis"] = "done"
    /\ writes["run_sast_analysis"].sast_error = "OSError"
    /\ writes["run_intent_analysis"].intent_error = "Failed to parse intent analysis response"

\* ---------------------------------------------------------------------------
\* The context assembled by fetch_pr_data.
ContextKeys ==
    {"extracted_context", "diff_content", "files", "pr_context", "context_prompt_section"}

\* The update of fetch_pr_data has been merged into the workflow state.
FetchMerged == finished["fetch_pr_data"] = 1 /\ npc["fetch_pr_data"] = "idle"

\* C20: the merge of fetch_pr_data's update installs the values it returned;
\* from then on no step of the SAST branch, the intent branch, the combine
\* step or the synthesis loop changes extracted_context, diff_content, files,
\* pr_context or context_prompt_section; the workflow state is not changed at
\* all once the loop has started, and the prompt of every synthesis attempt
\* is built from the same combined_prompt of that state.
C20_ContextReadOnlyAfterFetch ==
    [][ /\ (npc["fetch_pr_data"] = "done" /\ npc'["fetch_pr_data"] = "idle") =>
               \A k \in ContextKeys \cap DOMAIN writes["fetch_pr_data"] :
                   st'[k] = writes["fetch_pr_data"][k]
        /\ FetchMerged => \A k \in ContextKeys : st'[k] = st[k]
        /\ phase \in {"loop", "done"} => st' = st
        /\ \A n \in DOMAIN prompts' :
               prompts'[n] = generate_review_prompt(CombinedPromptFor(st', n))
      ]_vars

\* A run with fetched file content whose loop made two synthesis attempts and
\* returned a verdict.
C20_Witness ==
    /\ resp.returned
    /\ resp.success
    /\ Len(prompts) >= 2
    /\ st.extracted_context.changed_files = 1
    /\ st.context_prompt_section # <<>>
    /\ st.files = "files"
    /\ st.combined_prompt # <<>>

\* ---------------------------------------------------------------------------
\* The provider calls made so far by call_with_retry.
ProviderCalls == Len(cwr.outcomes)

\* What holds of call_with_retry at every moment.
CallWithinCeiling ==
    /\ ProviderCalls <= cwr.max_retries + 1
    /\ \A i \in 1..(ProviderCalls - 1) : cwr.outcomes[i] \in ProviderErrors
    /\ (cwr.pc = "returned" /\ cwr.result.success) =>
           /\ cwr.outcomes[ProviderCalls] = ProviderText
           /\ cwr.result.text = ProviderText
    /\ (cwr.pc = "returned" /\ ~cwr.result.success) =>
           /\ ProviderCalls = cwr.max_retries + 1
           /\ cwr.outcomes[ProviderCalls] \in ProviderErrors
           /\ cwr.result.error = cwr.outcomes[ProviderCalls]
           /\ cwr.result.attempts = cwr.max_retries + 1

\* C21: call_with_retry makes at most max_retries + 1 provider calls, returns
\* success at the first call that succeeds and makes no call after it, returns
\* failure with the last error after the last failed call, and always returns.
C21_CallWithRetryBounded ==
    /\ []CallWithinCeiling
    /\ <>(cwr.pc = "returned")

\* The default client (max_retries 3) failed on four provider calls and
\* returned the last error.
C21_Witness ==
    /\ cwr.pc = "returned"
    /\ cwr.max_retries = DEFAULT_MAX_RETRIES
    /\ ~cwr.result.success
    /\ ProviderCalls = 4
    /\ cwr.outcomes[1] = ErrRateCode
    /\ cwr.result.error = ErrTimeout

\* ---------------------------------------------------------------------------
\* A transient provider failure: rate limit or timeout.
IsTransientError(msg) == IsRateLimitError(msg) \/ IsTimeoutError(msg)

\* C22: inside one call only transient provider failures are retried: every
\* provider call that is followed by another provider call failed with a rate
\* limit or a timeout, and a call that failed otherwise is the last one.
C22_OnlyTransientRetried ==
    \A i \in 1..(ProviderCalls - 1) : IsTransientError(cwr.outcomes[i])

\* ---------------------------------------------------------------------------
\* C23: every blocking external operation of a review run executes on a worker
\* thread: none is made on the coordinating task, so a branch of the fan-out
\* never holds the coordinating task while it waits on an external call.
C23_NoBlockingCallOnCoordinator == calls.on_coordinator = 0

\* ---------------------------------------------------------------------------
\* The symbol-extraction task of the running SAST node was started.
SymbolStarted == tasks.symbol.kind # "none"

\* C24: while run_sast_analysis awaits its sub-tasks, symbol extraction was
\* started if and only if the run is not diff-only, the extractor is available
\* and a changed file has content; a symbol-extraction call was made exactly
\* then, the analyzer sub-task runs in every case, and a node that returns
\* without a symbol-extraction call returns an empty symbol_table_prompt.
C24_SymbolExtractionIffPossible ==
    /\ npc["run_sast_analysis"] = "await" =>
           /\ SymbolStarted <=> (/\ ~st.extracted_context.diff_only_mode
                                 /\ tasks.available
                                 /\ st.extracted_context.with_content > 0)
           /\ SymbolStarted <=> (calls.symbols = 1)
           /\ tasks.semgrep.kind # "none"
           /\ calls.analyzer = 1
    /\ calls.symbols <= 1
    /\ (npc["run_sast_analysis"] = "done" /\ calls.symbols = 0) =>
           /\ writes["run_sast_analysis"].symbol_table_prompt = <<>>
           /\ calls.analyzer = 1

\* Changed files were fetched but none has content, the extractor is
\* available, and only the analyzer sub-task is running.
C24_Witness ==
    /\ npc["run_sast_analysis"] = "await"
    /\ st.extracted_context.changed_files = 1
    /\ st.extracted_context.with_content = 0
    /\ tasks.available
    /\ ~SymbolStarted
    /\ tasks.semgrep.kind = "running"

\* ---------------------------------------------------------------------------
\* The last evaluation is one of extract_context.
ExtractEvaluated == pure.op = "extract_context"

\* The files of the change set whose content fetch did not succeed.
FetchFailedPaths(files) ==
    {files[i].filename : i \in {j \in 1..Len(files) : files[j].fetch # "ok"}}

\* C25: a failed tree listing, an unresolved import or a failed fetch of one
\* file's content never becomes a workflow_error: the structure is empty, the
\* related list is empty, the file is left out, related files are files of
\* the repository only, and the update of fetch_pr_data lets the fan-out start.
C25_ExtractionFailuresDegrade ==
    ExtractEvaluated =>
        /\ ~pure.out.extracted.raised
        /\ "workflow_error" \notin DOMAIN pure.out.update
        /\ pure.out.update.fetched
        /\ pure.arg.tree # "ok" => pure.out.extracted.repo_structure.file_count = 0
        /\ pure.arg.rel_tree # "ok" => pure.out.extracted.related_files = <<>>
        /\ PathsOf(pure.out.extracted.changed_files) \cap FetchFailedPaths(pure.arg.files) = {}
        /\ \A i \in 1..Len(pure.out.extracted.related_files) :
               pure.out.extracted.related_files[i] \in RepoFiles

\* The tree listing failed, the content fetch of one file raised, the other
\* file was kept, and the fan-out can start.
C25_Witness ==
    /\ ExtractEvaluated
    /\ pure.arg.tree = "failed"
    /\ pure.arg.rel_tree = "failed"
    /\ pure.arg.files[1].fetch = "raised"
    /\ Len(pure.arg.files) = 2
    /\ Len(pure.out.extracted.changed_files) = 1
    /\ pure.out.update.fetched

\* ---------------------------------------------------------------------------
\* The order of the modes: full < truncated < summary < diff_only.
ModeRank(mode) ==
    CASE mode = "full" -> 0
      [] mode = "truncated" -> 1
      [] mode = "summary" -> 2
      [] mode = "diff_only" -> 3

\* m2 is m with exactly one of the three metrics increased.
OneMetricIncreased(m, m2) ==
    \/ /\ m2.file_count > m.file_count
       /\ m2.total_changes = m.total_changes
       /\ m2.diff_size_chars = m.diff_size_chars
    \/ /\ m2.file_count = m.file_count
       /\ m2.total_changes > m.total_changes
       /\ m2.diff_size_chars = m.diff_size_chars
    \/ /\ m2.file_count = m.file_count
       /\ m2.total_changes = m.total_changes
       /\ m2.diff_size_chars > m.diff_size_chars

\* C26: the mode never becomes less aggressive when one of file count, total
\* changed lines and diff size grows while the other two stay the same.
C26_ModeMonotone ==
    pure.op = "get_recommended_mode" =>
        \A m2 \in MetricsInputs :
            OneMetricIncreased(pure.arg, m2) =>
                ModeRank(get_recommended_mode(m2)) >= ModeRank(pure.out)

\* A summary-mode change set of 200 files that becomes diff_only with 201.
C26_Witness ==
    /\ pure.op = "get_recommended_mode"
    /\ pure.arg = [file_count |-> 200, total_changes |-> 4001, diff_size_chars |-> 2000]
    /\ pure.out = "summary"
    /\ get_recommended_mode([pure.arg EXCEPT !.file_count = 201]) = "diff_only"

\* ---------------------------------------------------------------------------
\* The last evaluation is one of the size limits of fetch_pr_data.
LimitsEvaluated == pure.op = "fetch_pr_data"

\* C27: in truncated mode every file of the change set is handed to context
\* assembly, and the stored diff is at most max_diff_size characters long.
C27_TruncatedKeepsAllFiles ==
    (LimitsEvaluated /\ pure.out.mode = "truncated") =>
        /\ pure.out.context_files = FilesOf(pure.arg.n, pure.arg.pattern)
        /\ pure.out.diff_len <= max_diff_size

\* The files of the change set that were not handed to context assembly.
LeftOut(files, handed) == {files[i] : i \in 1..Len(files)} \ {handed[i] : i \in 1..Len(handed)}

\* C28: in summary mode no file left out of context assembly ranks higher
\* under get_priority than a file that was handed to it.
C28_SummaryKeepsHighestRanked ==
    (LimitsEvaluated /\ pure.out.mode = "summary") =>
        \A f \in LeftOut(FilesOf(pure.arg.n, pure.arg.pattern), pure.out.context_files) :
            \A i \in 1..Len(pure.out.context_files) :
                get_priority(pure.out.context_files[i]) >= get_priority(f)

\* The limit of the stored diff in a mode.
DiffLimit(mode) == IF mode = "diff_only" THEN 2 * max_diff_size ELSE max_diff_size

\* C29: the stored diff is the raw diff in full mode, at most max_diff_size
\* characters in truncated and summary modes and at most twice that in
\* diff_only mode, and a diff within the limit of its mode is stored unchanged.
C29_StoredDiffBounded ==
    LimitsEvaluated =>
        /\ pure.out.mode = "full" => pure.out.diff_len = pure.out.raw_len
        /\ pure.out.mode # "full" => pure.out.diff_len <= DiffLimit(pure.out.mode)
        /\ pure.out.raw_len <= DiffLimit(pure.out.mode) => pure.out.diff_len = pure.out.raw_len

\* A summary-mode diff over the limit that was cut close to the limit.
C29_Witness ==
    /\ LimitsEvaluated
    /\ pure.out.mode = "summary"
    /\ pure.out.raw_len > max_diff_size
    /\ pure.out.diff_len <= max_diff_size
    /\ pure.out.diff_len > 45000

\* C30 (as claimed): the text built by to_prompt_section is never longer
\* than max_total_size, and in the intent prompt the context section and the
\* diff together are never longer than 60000, whatever the lengths of the
\* file contents, paths and diffs. The lengths compared here leave out the
\* newlines that join the parts, so the real texts are longer still.
C30_PromptsWithinTotalBudget ==
    /\ pure.op = "to_prompt_section" =>
          StructSectionLen(pure.arg.ctx) + pure.out.changed + pure.out.imported
              + pure.out.related <= pure.arg.max_total_size
    /\ pure.op = "_build_intent_analysis_prompt" =>
          pure.out.context + pure.out.diff <= IntentPromptBudget

\* The same context with no related files.
WithoutRelated(ctx) == [ctx EXCEPT !.related_files = <<>>]

\* C31 (as claimed): in both prompt builders the newly-imported files are
\* budgeted before the related files, so the newly-imported part of a prompt
\* is never shorter than the one built from the same context without its
\* related files.
C31_ImportedBeforeRelated ==
    /\ pure.op = "to_prompt_section" =>
          pure.out.imported
              >= to_prompt_section(WithoutRelated(pure.arg.ctx),
                                   pure.arg.max_total_size).imported
    /\ pure.op = "_build_intent_analysis_prompt" =>
          pure.out.imported >= build_intent_imported_part(WithoutRelated(pure.arg.ctx))

\* The text holds a well-formed JSON object as a brace-delimited substring.
HoldsObject(text) ==
    \E a \in 1..Len(text) : \E b \in a..Len(text) : IsObject(SubSeq(text, a, b))

\* C32 (as claimed): parse_json_with_fallbacks returns the whole-text decode
\* when that succeeds, and it succeeds on every text that holds a well-formed
\* JSON object as a balanced brace-delimited substring, whatever precedes the
\* object.
C32_ParseFindsEmbeddedObject ==
    pure.op = "parse_json_with_fallbacks" =>
        /\ LoadFixed(pure.arg.text).ok => pure.out = [ok |-> TRUE, val |-> LoadFixed(pure.arg.text).val]
        /\ HoldsObject(pure.arg.text) => pure.out.ok

\* The files of a list that a prioritization left out.
Omitted(files, kept) == {files[i] : i \in {j \in 1..Len(files) : files[j].id \notin FileIds(kept)}}
Returned(kept) == {kept[i] : i \in 1..Len(kept)}

\* r ranks at least as high as o: a higher extension priority (source-code
\* extensions have 7 to 10, configuration and documentation extensions 1
\* to 5), or the same priority and at least as many changed lines, counted
\* up to 500.
RanksAtLeast(r, o) ==
    \/ ExtPriority(r.ext) > ExtPriority(o.ext)
    \/ /\ ExtPriority(r.ext) = ExtPriority(o.ext)
       /\ Min(r.changes, 500) >= Min(o.changes, 500)

RECURSIVE ReplayedLines(_, _, _)
ReplayedLines(patch, i, in_hunk) ==
    IF i > Len(patch) THEN <<>>
    ELSE IF StartsWith(patch[i], <<"@", "@">>) THEN ReplayedLines(patch, i + 1, TRUE)
    ELSE IF ~in_hunk \/ StartsWith(patch[i], <<"-">>) \/ StartsWith(patch[i], <<"\\">>)
    THEN ReplayedLines(patch, i + 1, in_hunk)
    ELSE <<Tail(patch[i])>> \o ReplayedLines(patch, i + 1, in_hunk)

WrittenNames(written) == {written[i].filename : i \in 1..Len(written)}
WrittenContent(written, name) ==
    (CHOOSE w \in {written[i] : i \in 1..Len(written)} : w.filename = name).content

\* C34 (as claimed): analyze_diff never materializes a removed file; a file
\* that is not removed is materialized from its full content when that is
\* given, and otherwise from the added and context lines of its patch, in
\* their order, when there are any; and when no file is materialized semgrep
\* is not invoked. Stated for runs in which a language is detected and the
\* temporary files can be written.
C34_MaterializedFromContentOrPatch ==
    (/\ pure.op = "analyze_diff"
     /\ pure.arg.write_ok
     /\ detect_languages(pure.arg.files) # {}) =>
        /\ \A i \in 1..Len(pure.arg.files) :
              IF pure.arg.files[i].status = "removed"
              THEN pure.arg.files[i].filename \notin WrittenNames(pure.out.written)
              ELSE IF pure.arg.files[i].filename \in DOMAIN pure.arg.full_file_contents
              THEN /\ pure.arg.files[i].filename \in WrittenNames(pure.out.written)
                   /\ WrittenContent(pure.out.written, pure.arg.files[i].filename)
                         = pure.arg.full_file_contents[pure.arg.files[i].filename]
              ELSE ReplayedLines(pure.arg.files[i].patch, 1, FALSE) # <<>> =>
                      /\ pure.arg.files[i].filename \in WrittenNames(pure.out.written)
                      /\ WrittenContent(pure.out.written, pure.arg.files[i].filename)
                            = ReplayedLines(pure.arg.files[i].patch, 1, FALSE)
        /\ pure.out.written = <<>> => ~pure.out.invoked

\* C35 (as claimed): the verdict built from a decoded response whose issues
\* list holds at least one object has at least one finding, whatever the
\* score and the fields of the issues, so the attempt ends the synthesis
\* loop.
C35_ObjectIssueGivesFinding ==
    (pure.op = "_perform_ai_review" /\ ObjectEntries(pure.arg.result.issues) # {}) =>
        pure.out.issues > 0

\* The request cannot be served: no GitHub token, no API key for the selected
\* provider, or a provider that is not known.
BadConfiguration ==
    \/ ~req.github_token
    \/ req.provider \notin {"glm", "claude"}
    \/ ~req.api_key

ConfigMessages ==
    {"GitHub token not configured", "GLM API key not configured",
     "Claude API key not configured", "Unknown provider"}

\* C36: with a missing GitHub token, a missing API key of the selected
\* provider or an unknown provider, start_review fetches no change set,
\* invokes no analyzer and makes no language-model call, runs no node of the
\* workflow, and what it returns is success = false with an error that names
\* the configuration problem.
C36_ConfigurationCheckedFirst ==
    BadConfiguration =>
        /\ calls.fetch = 0 /\ calls.content = 0 /\ calls.analyzer = 0
        /\ calls.symbols = 0 /\ calls.intent_llm = 0 /\ calls.review_llm = 0
        /\ \A n \in Nodes : runs[n] = 0
        /\ phase \in {"start", "done"}
        /\ resp.returned => (~resp.success /\ resp.error \in ConfigMessages /\ resp.review.null)

\* The request has a token but no API key for glm, and start_review has
\* returned the error about the key.
C36_Witness ==
    /\ req.github_token /\ req.provider = "glm" /\ ~req.api_key
    /\ resp.returned /\ ~resp.success
    /\ resp.error = "GLM API key not configured"
    /\ calls.fetch = 0

\* The most changed files whose content one run may ask for, by mode.
ChangedFetchCap(mode) ==
    IF mode = "diff_only" THEN 0 ELSE IF mode = "summary" THEN 10 ELSE 150

\* C37: in one run of fetch_pr_data the calls of the file-content fetch are
\* bounded whatever the change set: at most 150 for changed files (10 in
\* summary mode, none in diff_only mode), at most 5 for related files and at
\* most 10 for newly-imported files.
C37_ContentFetchesBounded ==
    pure.op = "fetch_pr_data" =>
        /\ pure.out.fetches.changed <= ChangedFetchCap(pure.out.mode)
        /\ pure.out.fetches.related <= 5
        /\ pure.out.fetches.imported <= 10

\* A change set of 151 files in truncated mode: 150 contents are asked for.
C37_Witness ==
    /\ pure.op = "fetch_pr_data"
    /\ pure.out.mode = "truncated" /\ pure.arg.n = 151
    /\ pure.out.fetches.changed = 150

\* A sequence without repeated elements.
NoRepeats(q) == Cardinality(SeqToSet(q)) = Len(q)

\* C38: in the context extract_context assembles no path is in more than one
\* of changed_files, related_files and diff_imported_files, and none is twice
\* in one list: a related file is not in changed_files, and a newly-imported
\* file is neither in changed_files nor in related_files.
C38_ContextListsDisjoint ==
    ExtractEvaluated =>
        /\ PathsOf(pure.out.extracted.changed_files)
              \cap SeqToSet(pure.out.extracted.related_files) = {}
        /\ SeqToSet(pure.out.extracted.diff_imported_files)
              \cap (PathsOf(pure.out.extracted.changed_files)
                    \cup SeqToSet(pure.out.extracted.related_files)) = {}
        /\ NoRepeats(pure.out.extracted.related_files)
        /\ NoRepeats(pure.out.extracted.diff_imported_files)
        /\ Cardinality(PathsOf(pure.out.extracted.changed_files))
              = Len(pure.out.extracted.changed_files)

\* b.py imports the changed file a.py and utils/logger.py, and the diff adds
\* imports of both: a.py stays in changed_files only and utils/logger.py in
\* related_files only.
C38_Witness ==
    /\ ExtractEvaluated
    /\ PathsOf(pure.out.extracted.changed_files) = {"a.py", "b.py"}
    /\ pure.out.extracted.related_files = <<"utils/logger.py">>
    /\ pure.arg.diff_imports = <<"a", "utils.logger">>
    /\ pure.arg.imp_tree = "ok"
    /\ pure.out.extracted.diff_imported_files = <<>>

\* C39: related and newly-imported files are fetched in full mode only. In
\* truncated, summary and diff_only mode fetch_pr_data asks for the content
\* of no related and no newly-imported file, and an extract_context called
\* without include_related returns both lists empty and makes no tree
\* listing and no content fetch for them.
C39_RelatedOnlyInFullMode ==
    /\ (pure.op = "fetch_pr_data" /\ pure.out.mode # "full") =>
          pure.out.fetches.related = 0 /\ pure.out.fetches.imported = 0
    /\ (ExtractEvaluated /\ ~pure.arg.include_related) =>
          /\ pure.out.extracted.related_files = <<>>
          /\ pure.out.extracted.diff_imported_files = <<>>
          /\ pure.out.extracted.lookups.tree_listings = 0
          /\ pure.out.extracted.lookups.fetches = 0

\* A change set in truncated mode whose imports resolve to 7 related and 12
\* newly-imported paths: none of them is fetched.
C39_Witness ==
    /\ pure.op = "fetch_pr_data"
    /\ pure.out.mode = "truncated"
    /\ pure.arg.related_paths = 7 /\ pure.arg.resolved_paths = 12
    /\ pure.out.fetches.changed > 0
    /\ pure.out.fetches.related = 0 /\ pure.out.fetches.imported = 0

\* C40 (as claimed): for every content and every max_size >= 0,
\* truncate_content returns the content unchanged when it is at most max_size
\* long, and otherwise a text of at most max_size characters: a prefix of the
\* content followed by the suffix.
C40_TruncateWithinMaxSize ==
    pure.op = "truncate_content" =>
        IF pure.arg.len <= pure.arg.max_size
        THEN pure.out = pure.arg.len
        ELSE /\ pure.out <= pure.arg.max_size
             /\ pure.out >= pure.arg.suffix_len
             /\ pure.out - pure.arg.suffix_len <= pure.arg.len

====
